---- MODULE Spec2Model ----
(***************************************************************************)
(* State-machine model of the ingestion-to-policy reconciliation pipeline *)
(* of ovs-catnat: Import Queue, File Processor, Lifecycle Manager, Policy  *)
(* Service and Pricing Engine.                                             *)
(*                                                                         *)
(* Conventions.  A JavaScript Map is an insertion-ordered sequence of      *)
(* entries with unique keys (set on a present key replaces in place, on an *)
(* absent key appends).  Dates are integers (milliseconds); a null date is *)
(* NoDate.  Money is held in cents and a floor area in hundredths of a     *)
(* square metre.  One action is one synchronous run of the event loop, so  *)
(* it reads the clock once.                                                *)
(***************************************************************************)
EXTENDS Integers, Sequences, FiniteSets, TLC

\* ------------------------------------------------------------------------
\* Bounds of the model
\* ------------------------------------------------------------------------
MaxJobs == 2
MaxMs == 1
MaxDays == 1
MaxCalls == 3
MaxHeld == 101
MaxLines == 2
MaxConfigs == 2
MaxBatch == 2

\* ------------------------------------------------------------------------
\* Program constants
\* ------------------------------------------------------------------------
MaxJobsPerSessionOffByOne == 100 + 1
MAX_JOBS_PER_SESSION == 100
JOB_RETENTION_HOURS == 24
AUTHORIZED_ROLES == {"admin", "broker"}
UserRole == {"admin", "broker", "store_manager"}
StoreStatus == {"pending", "active", "suspended", "inactive"}
NoDate == -1

retentionMs == JOB_RETENTION_HOURS * 60 * 60 * 1000

Max(a, b) == IF a >= b THEN a ELSE b
Min(a, b) == IF a <= b THEN a ELSE b

\* ------------------------------------------------------------------------
\* Map helpers (insertion-ordered maps as sequences of entries)
\* ------------------------------------------------------------------------
StoreCodes(m) == {m[i].storeCode : i \in 1..Len(m)}
HasStore(m, code) == code \in StoreCodes(m)
GetStore(m, code) == m[CHOOSE i \in 1..Len(m) : m[i].storeCode = code]
SetStore(m, st) ==
    IF HasStore(m, st.storeCode)
    THEN [i \in 1..Len(m) |-> IF m[i].storeCode = st.storeCode THEN st ELSE m[i]]
    ELSE Append(m, st)

\* ------------------------------------------------------------------------
\* Lifecycle Manager
\* ------------------------------------------------------------------------
VALID_TRANSITIONS ==
    [pending   |-> {"active", "inactive"},
     active    |-> {"suspended", "inactive"},
     suspended |-> {"active", "inactive"},
     inactive  |-> {"pending"}]

isValidTransition(from, to) == to \in VALID_TRANSITIONS[from]

\* one audit entry, as pushed by logAudit (previousState NoStore for null)
NoStore == [storeCode |-> ""]
logAudit(action, entityId, previousState, newState, t) ==
    [action |-> action, entityType |-> "store", entityId |-> entityId,
     previousState |-> previousState, newState |-> newState,
     performedBy |-> "system", timestamp |-> t]

\* A lifecycle call returns [success, store, event, error] and the audit
\* entries it appended.
NoEvent == [storeCode |-> ""]
LifecycleFail(store, error) ==
    [success |-> FALSE, store |-> store, event |-> NoEvent, error |-> error,
     log |-> <<>>]
LifecycleOkNoAudit(action, store, updatedStore, t) ==
    [success |-> TRUE, store |-> updatedStore,
     event |-> [storeCode |-> store.storeCode, previousStatus |-> store.status,
                newStatus |-> updatedStore.status, effectiveDate |-> t],
     error |-> "",
     log |-> <<>>]

LifecycleOk(action, store, updatedStore, t) ==
    [success |-> TRUE, store |-> updatedStore,
     event |-> [storeCode |-> store.storeCode, previousStatus |-> store.status,
                newStatus |-> updatedStore.status, effectiveDate |-> t],
     error |-> "",
     log |-> <<logAudit(action, store.storeCode, store, updatedStore, t)>>]

activateNoTransitionCheck(store, t) ==
    IF store.status = "active" THEN LifecycleFail(store, "gia attivo")
    ELSE LifecycleOk("store_updated", store,
            [store EXCEPT !.status = "active",
                          !.activationDate =
                              IF store.activationDate = NoDate THEN t
                              ELSE store.activationDate,
                          !.closureDate = NoDate,
                          !.updatedAt = t], t)

activate(store, t) ==
    IF store.status = "active" THEN LifecycleFail(store, "gia attivo")
    ELSE IF ~isValidTransition(store.status, "active")
    THEN LifecycleFail(store, "impossibile attivare")
    ELSE LifecycleOk("store_updated", store,
            [store EXCEPT !.status = "active",
                          !.activationDate =
                              IF store.activationDate = NoDate THEN t
                              ELSE store.activationDate,
                          !.closureDate = NoDate,
                          !.updatedAt = t], t)

deactivateNoClosureDate(store, t) ==
    IF store.status = "inactive" THEN LifecycleFail(store, "gia inattivo")
    ELSE IF ~isValidTransition(store.status, "inactive")
    THEN LifecycleFail(store, "impossibile disattivare")
    ELSE LifecycleOk("store_deactivated", store,
            [store EXCEPT !.status = "inactive", !.updatedAt = t], t)

deactivate(store, t) ==
    IF store.status = "inactive" THEN LifecycleFail(store, "gia inattivo")
    ELSE IF ~isValidTransition(store.status, "inactive")
    THEN LifecycleFail(store, "impossibile disattivare")
    ELSE LifecycleOk("store_deactivated", store,
            [store EXCEPT !.status = "inactive",
                          !.closureDate = t,
                          !.updatedAt = t], t)

suspendNoTransitionCheck(store, t) ==
    IF store.status = "suspended" THEN LifecycleFail(store, "gia sospeso")
    ELSE LifecycleOk("store_updated", store,
            [store EXCEPT !.status = "suspended", !.updatedAt = t], t)

suspend(store, t) ==
    IF store.status = "suspended" THEN LifecycleFail(store, "gia sospeso")
    ELSE IF ~isValidTransition(store.status, "suspended")
    THEN LifecycleFail(store, "impossibile sospendere")
    ELSE LifecycleOk("store_updated", store,
            [store EXCEPT !.status = "suspended", !.updatedAt = t], t)

\* createStore returns the new pending store and its audit entry
createStore(data, t) ==
    LET store == [storeCode |-> data.storeCode,
                  businessName |-> data.businessName,
                  address |-> data.address,
                  squareMeters |-> data.squareMeters,
                  status |-> "pending",
                  activationDate |-> NoDate, closureDate |-> NoDate,
                  createdAt |-> t, updatedAt |-> t]
    IN [store |-> store,
        log |-> <<logAudit("store_created", store.storeCode, NoStore, store, t)>>]

EmptyBulk == [created |-> <<>>, updated |-> <<>>, deactivated |-> <<>>, log |-> <<>>]

\* the first loop without its comparison: every existing store of the import
\* is rewritten
RECURSIVE bulkImportedAlwaysUpdate(_, _, _, _)
bulkImportedAlwaysUpdate(existingStores, importedData, t, acc) ==
    IF importedData = <<>> THEN acc
    ELSE
      LET data == Head(importedData)
          rest == Tail(importedData)
      IN IF ~HasStore(existingStores, data.storeCode)
         THEN LET c == createStore(data, t)
                  result == activate(c.store, t)
              IN bulkImportedAlwaysUpdate(existingStores, rest, t,
                   [acc EXCEPT
                      !.created = IF result.success THEN Append(@, result.store) ELSE @,
                      !.log = @ \o c.log \o result.log])
         ELSE LET existing == GetStore(existingStores, data.storeCode)
                  updatedStore ==
                      [existing EXCEPT !.businessName = data.businessName,
                                       !.address = data.address,
                                       !.squareMeters = data.squareMeters,
                                       !.updatedAt = t]
              IN bulkImportedAlwaysUpdate(existingStores, rest, t,
                   [acc EXCEPT
                      !.updated = Append(@, updatedStore),
                      !.log = Append(@, logAudit("store_updated",
                                  existing.storeCode, existing, updatedStore, t))])

\* first loop of processBulkUpdate: the imported rows, in file order
RECURSIVE bulkImported(_, _, _, _)
bulkImported(existingStores, importedData, t, acc) ==
    IF importedData = <<>> THEN acc
    ELSE
      LET data == Head(importedData)
          rest == Tail(importedData)
      IN IF ~HasStore(existingStores, data.storeCode)
         THEN LET c == createStore(data, t)
                  result == activate(c.store, t)
              IN bulkImported(existingStores, rest, t,
                   [acc EXCEPT
                      !.created = IF result.success THEN Append(@, result.store) ELSE @,
                      !.log = @ \o c.log \o result.log])
         ELSE LET existing == GetStore(existingStores, data.storeCode)
              IN IF \/ existing.businessName # data.businessName
                    \/ existing.address # data.address
                    \/ existing.squareMeters # data.squareMeters
                 THEN LET updatedStore ==
                              [existing EXCEPT !.businessName = data.businessName,
                                               !.address = data.address,
                                               !.squareMeters = data.squareMeters,
                                               !.updatedAt = t]
                      IN bulkImported(existingStores, rest, t,
                           [acc EXCEPT
                              !.updated = Append(@, updatedStore),
                              !.log = Append(@, logAudit("store_updated",
                                          existing.storeCode, existing, updatedStore, t))])
                 ELSE bulkImported(existingStores, rest, t, acc)

\* the second loop without its status test: every absent store is handed
\* to deactivate
RECURSIVE bulkAbsentAnyStatus(_, _, _, _)
bulkAbsentAnyStatus(remaining, importedCodes, t, acc) ==
    IF remaining = <<>> THEN acc
    ELSE
      LET store == Head(remaining)
      IN IF store.storeCode \notin importedCodes
         THEN LET result == deactivate(store, t)
              IN bulkAbsentAnyStatus(Tail(remaining), importedCodes, t,
                   [acc EXCEPT
                      !.deactivated = IF result.success THEN Append(@, result.store) ELSE @,
                      !.log = @ \o result.log])
         ELSE bulkAbsentAnyStatus(Tail(remaining), importedCodes, t, acc)

\* second loop of processBulkUpdate: existing stores absent from the import
RECURSIVE bulkAbsent(_, _, _, _)
bulkAbsent(remaining, importedCodes, t, acc) ==
    IF remaining = <<>> THEN acc
    ELSE
      LET store == Head(remaining)
      IN IF store.storeCode \notin importedCodes /\ store.status = "active"
         THEN LET result == deactivate(store, t)
              IN bulkAbsent(Tail(remaining), importedCodes, t,
                   [acc EXCEPT
                      !.deactivated = IF result.success THEN Append(@, result.store) ELSE @,
                      !.log = @ \o result.log])
         ELSE bulkAbsent(Tail(remaining), importedCodes, t, acc)

processBulkUpdate(existingStores, importedData, t) ==
    LET importedCodes == {importedData[i].storeCode : i \in 1..Len(importedData)}
    IN bulkAbsent(existingStores, importedCodes, t,
                  bulkImported(existingStores, importedData, t, EmptyBulk))

\* ------------------------------------------------------------------------
\* File Processor
\* A file content is [headers, lines]: the header cells and the data lines,
\* each a sequence of cells; a blank line is <<>>.  Cells and header names
\* are tokens; the empty string content is EmptyContent.
\* ------------------------------------------------------------------------
EmptyContent == [headers |-> <<>>, lines |-> <<>>]

\* keyword families a header token contains (case-insensitive substring)
headerMatches(h) ==
    CASE h = "codice"    -> {"storeCode"}
      [] h = "mq"        -> {"squareMeters"}
      [] h = "nome"      -> {"businessName"}
      [] h = "indirizzo" -> {"address"}
      [] OTHER           -> {}

\* a floor area of n square metres, in the hundredths the model holds
SqmScale == 100
Sqm(n) == n * SqmScale

\* parseFloat of a cell token: [nan, v]
parseFloat(s) ==
    CASE s = "100" -> [nan |-> FALSE, v |-> Sqm(100)]
      [] s = "200" -> [nan |-> FALSE, v |-> Sqm(200)]
      [] s = "5"   -> [nan |-> FALSE, v |-> Sqm(5)]
      [] s = "0"   -> [nan |-> FALSE, v |-> 0]
      [] s = "-5"  -> [nan |-> FALSE, v |-> 0 - Sqm(5)]
      [] OTHER     -> [nan |-> TRUE, v |-> 0]

\* content.trim(): trailing blank lines are dropped
RECURSIVE trimLines(_)
trimLines(lines) ==
    IF lines = <<>> THEN <<>>
    ELSE IF lines[Len(lines)] = <<>> THEN trimLines(SubSeq(lines, 1, Len(lines) - 1))
         ELSE lines

\* parseCSV: [threw, rows]; a raw row is the cells padded to the headers
parseCSV(content) ==
    LET lines == trimLines(content.lines)
        n == Len(content.headers)
        \* row[header] = values[index] ?? "": a header that comes twice keeps
        \* the value of its last column
        key(i) == CHOOSE k \in i..n :
                     /\ content.headers[k] = content.headers[i]
                     /\ \A m \in (k + 1)..n : content.headers[m] # content.headers[i]
        pad(line) == [i \in 1..n |-> IF key(i) <= Len(line) THEN line[key(i)] ELSE ""]
        RECURSIVE rowsOf(_)
        rowsOf(ls) == IF ls = <<>> THEN <<>>
                      ELSE IF Head(ls) = <<>> THEN rowsOf(Tail(ls))
                           ELSE <<pad(Head(ls))>> \o rowsOf(Tail(ls))
    IN IF 1 + Len(lines) < 2 THEN [threw |-> TRUE, rows |-> <<>>]
       ELSE [threw |-> FALSE, rows |-> rowsOf(lines)]

\* findCol: index of the first header of the family, 0 when none
findCol(headers, family) ==
    IF \E i \in 1..Len(headers) : family \in headerMatches(headers[i])
    THEN CHOOSE i \in 1..Len(headers) :
            /\ family \in headerMatches(headers[i])
            /\ \A j \in 1..(i - 1) : family \notin headerMatches(headers[j])
    ELSE 0

ImportErr(row, field, value, message) ==
    [row |-> row, field |-> field, value |-> value, message |-> message]

RECURSIVE mapEach(_, _, _, _, _, _, _)
RECURSIVE mapEachSkipsEmptyCode(_, _, _, _, _, _, _)

\* the loop of mapRows passing over a row without store code in silence
mapEachSkipsEmptyCode(rawRows, index, storeCodeCol, businessNameCol, addressCol, sqmCol, acc) ==
    IF index > Len(rawRows) THEN acc
    ELSE
      LET raw == rawRows[index]
          rowNum == index - 1 + 2
          storeCode == raw[storeCodeCol]
          squareMetersStr == raw[sqmCol]
          squareMeters == parseFloat(squareMetersStr)
          next(a) == mapEachSkipsEmptyCode(rawRows, index + 1, storeCodeCol,
                                           businessNameCol, addressCol, sqmCol, a)
      IN IF storeCode = ""
         THEN next(acc)
         ELSE IF squareMeters.nan \/ squareMeters.v <= 0
         THEN next([acc EXCEPT !.errors = Append(@,
                  ImportErr(rowNum, "squareMeters", squareMetersStr, "non positivo"))])
         ELSE next([acc EXCEPT !.rows = Append(@,
                  [storeCode |-> storeCode,
                   businessName |-> IF businessNameCol # 0 THEN raw[businessNameCol] ELSE "",
                   address |-> IF addressCol # 0 THEN raw[addressCol] ELSE "",
                   squareMeters |-> squareMeters.v])])

mapEach(rawRows, index, storeCodeCol, businessNameCol, addressCol, sqmCol, acc) ==
    IF index > Len(rawRows) THEN acc
    ELSE
      LET raw == rawRows[index]
          rowNum == index - 1 + 2
          storeCode == raw[storeCodeCol]
          squareMetersStr == raw[sqmCol]
          squareMeters == parseFloat(squareMetersStr)
          next(a) == mapEach(rawRows, index + 1, storeCodeCol, businessNameCol,
                             addressCol, sqmCol, a)
      IN IF storeCode = ""
         THEN next([acc EXCEPT !.errors = Append(@,
                  ImportErr(rowNum, "storeCode", storeCode, "obbligatorio"))])
         ELSE IF squareMeters.nan \/ squareMeters.v <= 0
         THEN next([acc EXCEPT !.errors = Append(@,
                  ImportErr(rowNum, "squareMeters", squareMetersStr, "non positivo"))])
         ELSE next([acc EXCEPT !.rows = Append(@,
                  [storeCode |-> storeCode,
                   businessName |-> IF businessNameCol # 0 THEN raw[businessNameCol] ELSE "",
                   address |-> IF addressCol # 0 THEN raw[addressCol] ELSE "",
                   squareMeters |-> squareMeters.v])])

\* mapRows without the early return: the rows are mapped whatever columns
\* were found, a missing column reading as the empty cell
mapRowsPartial(headers, rawRows) ==
    IF rawRows = <<>> THEN [rows |-> <<>>, errors |-> <<>>]
    ELSE
      LET withEmpty == [i \in 1..Len(rawRows) |-> Append(rawRows[i], "")]
          emptyCol == Len(headers) + 1
          storeCodeCol == findCol(headers, "storeCode")
          sqmCol == findCol(headers, "squareMeters")
          e1 == IF storeCodeCol = 0
                THEN <<ImportErr(0, "storeCode", "", "colonna non trovata")>> ELSE <<>>
          e2 == IF sqmCol = 0
                THEN <<ImportErr(0, "squareMeters", "", "colonna non trovata")>> ELSE <<>>
      IN mapEach(withEmpty, 1,
                 IF storeCodeCol = 0 THEN emptyCol ELSE storeCodeCol,
                 findCol(headers, "businessName"), findCol(headers, "address"),
                 IF sqmCol = 0 THEN emptyCol ELSE sqmCol,
                 [rows |-> <<>>, errors |-> e1 \o e2])

mapRows(headers, rawRows) ==
    IF rawRows = <<>> THEN [rows |-> <<>>, errors |-> <<>>]
    ELSE
      LET storeCodeCol == findCol(headers, "storeCode")
          businessNameCol == findCol(headers, "businessName")
          addressCol == findCol(headers, "address")
          sqmCol == findCol(headers, "squareMeters")
          e1 == IF storeCodeCol = 0
                THEN <<ImportErr(0, "storeCode", "", "colonna non trovata")>> ELSE <<>>
          e2 == IF sqmCol = 0
                THEN <<ImportErr(0, "squareMeters", "", "colonna non trovata")>> ELSE <<>>
      IN IF storeCodeCol = 0 \/ sqmCol = 0
         THEN [rows |-> <<>>, errors |-> e1 \o e2]
         ELSE mapEach(rawRows, 1, storeCodeCol, businessNameCol, addressCol, sqmCol,
                      [rows |-> <<>>, errors |-> <<>>])

RECURSIVE validateEach(_, _, _, _)
validateEach(rows, index, seenCodes, acc) ==
    IF index > Len(rows) THEN acc
    ELSE
      LET row == rows[index]
          rowNum == index - 1 + 2
          a1 == IF row.storeCode \in seenCodes
                THEN [acc EXCEPT !.errors = Append(@,
                        ImportErr(rowNum, "storeCode", row.storeCode, "duplicato"))]
                ELSE acc
          a2 == IF row.squareMeters < Sqm(10)
                THEN [a1 EXCEPT !.warnings = Append(@, [row |-> rowNum, kind |-> "piccolo"])]
                ELSE a1
          a3 == IF row.squareMeters > Sqm(50000)
                THEN [a2 EXCEPT !.warnings = Append(@, [row |-> rowNum, kind |-> "grande"])]
                ELSE a2
      IN validateEach(rows, index + 1, seenCodes \cup {row.storeCode}, a3)

validate(rows) ==
    LET r == validateEach(rows, 1, {}, [errors |-> <<>>, warnings |-> <<>>])
    IN [isValid |-> Len(r.errors) = 0, errors |-> r.errors, warnings |-> r.warnings]

\* the earlier behaviour the FIXED comment of processFile describes: status
\* from validate alone, mapped rows returned whatever the mapping errors
processFileIgnoringMappingErrors(content) ==
    LET parsed == parseCSV(content)
    IN IF parsed.threw
       THEN [rows |-> <<>>,
             validation |-> [isValid |-> FALSE,
                             errors |-> <<ImportErr(0, "file", "", "CSV must have")>>,
                             warnings |-> <<>>],
             totalRecords |-> 0, status |-> "failed"]
       ELSE
         LET mapped == mapRows(content.headers, parsed.rows)
             validation == validate(mapped.rows)
         IN [rows |-> mapped.rows,
             validation |-> [isValid |-> validation.isValid,
                             errors |-> mapped.errors \o validation.errors,
                             warnings |-> validation.warnings],
             totalRecords |-> Len(parsed.rows),
             status |-> IF validation.isValid THEN "completed" ELSE "failed"]

processFile(content) ==
    LET parsed == parseCSV(content)
    IN IF parsed.threw
       THEN [rows |-> <<>>,
             validation |-> [isValid |-> FALSE,
                             errors |-> <<ImportErr(0, "file", "", "CSV must have")>>,
                             warnings |-> <<>>],
             totalRecords |-> 0, status |-> "failed"]
       ELSE
         LET mapped == mapRows(content.headers, parsed.rows)
             validation == validate(mapped.rows)
             allErrors == mapped.errors \o validation.errors
             hasNoErrors == Len(mapped.errors) = 0 /\ validation.isValid
         IN [rows |-> IF hasNoErrors THEN mapped.rows ELSE <<>>,
             validation |-> [isValid |-> hasNoErrors,
                             errors |-> allErrors,
                             warnings |-> validation.warnings],
             totalRecords |-> Len(parsed.rows),
             status |-> IF hasNoErrors THEN "completed" ELSE "failed"]

\* ------------------------------------------------------------------------
\* Calendar dates.  A policy's and a pricing config's dates are months apart,
\* the clock runs within days: such a date is [mo, ms], the clock reading ms
\* moved by mo months (setMonth(getMonth() + n) is taken to move a date by n
\* months of one length).  The null date and an omitted date are NoDay.
\* ------------------------------------------------------------------------
NoDay == [mo |-> 0, ms |-> NoDate]
Day(t) == [mo |-> 0, ms |-> t]
addMonths(d, n) == [d EXCEPT !.mo = @ + n]
Before(a, b) == a.mo < b.mo \/ (a.mo = b.mo /\ a.ms < b.ms)
NotAfter(a, b) == a = b \/ Before(a, b)

\* ------------------------------------------------------------------------
\* Pricing Engine (default configuration; amounts in cents)
\* ------------------------------------------------------------------------
\* 2024-01-01, a date before the clock's origin
ConfigFrom == addMonths(Day(0), 0 - 12)

DEFAULT_PRICING_CONFIGS ==
    <<[coverageType |-> "catnat", ratePerSquareMeter |-> 250,
       minimumPremium |-> 50000, maximumInsuredSum |-> 1000000000,
       effectiveFrom |-> ConfigFrom, effectiveTo |-> NoDay],
      [coverageType |-> "property", ratePerSquareMeter |-> 400,
       minimumPremium |-> 75000, maximumInsuredSum |-> 1500000000,
       effectiveFrom |-> ConfigFrom, effectiveTo |-> NoDay],
      [coverageType |-> "combined", ratePerSquareMeter |-> 550,
       minimumPremium |-> 100000, maximumInsuredSum |-> 2000000000,
       effectiveFrom |-> ConfigFrom, effectiveTo |-> NoDay]>>

NoConfig == [coverageType |-> "none"]

\* whether the config is of the coverage type and its window holds the date
isActiveConfig(config, coverageType, effectiveDate) ==
    /\ config.coverageType = coverageType
    /\ NotAfter(config.effectiveFrom, effectiveDate)
    /\ (config.effectiveTo = NoDay \/ NotAfter(effectiveDate, config.effectiveTo))

\* Array.find: the first of the configs at the indices, NoConfig when none
findFirst(configs, indices) ==
    IF indices = {} THEN NoConfig
    ELSE configs[CHOOSE i \in indices : \A j \in indices : i <= j]

\* a lookup that falls back on the first config of the coverage type when no
\* window holds the date
getActiveConfigOrFirst(configs, coverageType, effectiveDate) ==
    LET matching == {i \in 1..Len(configs) :
                        isActiveConfig(configs[i], coverageType, effectiveDate)}
        ofType == {i \in 1..Len(configs) : configs[i].coverageType = coverageType}
    IN findFirst(configs, IF matching = {} THEN ofType ELSE matching)

\* getActiveConfig of an engine built over configs: the first config of the
\* coverage type whose window holds the date
getActiveConfigIn(configs, coverageType, effectiveDate) ==
    findFirst(configs,
              {i \in 1..Len(configs) :
                  isActiveConfig(configs[i], coverageType, effectiveDate)})

\* the exported pricingEngine is built without configs
getActiveConfig(coverageType, effectiveDate) ==
    getActiveConfigIn(DEFAULT_PRICING_CONFIGS, coverageType, effectiveDate)

\* Math.round(x * 100) / 100 of an amount of n / SqmScale cents: the nearest
\* cent, a half cent going up
roundCents(n) == (n + SqmScale \div 2) \div SqmScale

\* calculate without the minimum premium floor
calculateWithNoMinimum(store, config) ==
    IF config = NoConfig THEN [threw |-> TRUE]
    ELSE
      LET basePremium == store.squareMeters * config.ratePerSquareMeter
          rawInsuredSum == store.squareMeters * ((1000 * 100) \div SqmScale)
          insuredSum == Min(rawInsuredSum, config.maximumInsuredSum)
      IN [threw |-> FALSE, premium |-> roundCents(basePremium),
          insuredSum |-> insuredSum,
          breakdown |-> [squareMeters |-> store.squareMeters,
                         rateApplied |-> config.ratePerSquareMeter,
                         basePremium |-> roundCents(basePremium),
                         adjustments |-> 0]]

\* calculate once the active config is found: [threw, premium, insuredSum,
\* breakdown]; basePremium, premium and adjustments are worked out in
\* hundredths of a cent (area in hundredths times the rate in cents) and
\* rounded on return, the insured sum (1000 euro a square metre) is whole cents
calculateWith(store, config) ==
    IF config = NoConfig THEN [threw |-> TRUE]
    ELSE
      LET basePremium == store.squareMeters * config.ratePerSquareMeter
          premium == Max(basePremium, config.minimumPremium * SqmScale)
          rawInsuredSum == store.squareMeters * ((1000 * 100) \div SqmScale)
          insuredSum == Min(rawInsuredSum, config.maximumInsuredSum)
      IN [threw |-> FALSE, premium |-> roundCents(premium),
          insuredSum |-> insuredSum,
          breakdown |-> [squareMeters |-> store.squareMeters,
                         rateApplied |-> config.ratePerSquareMeter,
                         basePremium |-> roundCents(basePremium),
                         adjustments |-> roundCents(premium - basePremium)]]

calculate(store, coverageType, effectiveDate) ==
    calculateWith(store, getActiveConfig(coverageType, effectiveDate))

\* calculate of an engine built over configs
calculateIn(configs, store, coverageType, effectiveDate) ==
    calculateWith(store, getActiveConfigIn(configs, coverageType, effectiveDate))

\* results.set(storeCode, result) on the results map, a sequence of
\* [key, value] entries
setResult(results, storeCode, result) ==
    IF \E i \in 1..Len(results) : results[i].key = storeCode
    THEN [i \in 1..Len(results) |->
            IF results[i].key = storeCode
            THEN [key |-> storeCode, value |-> result] ELSE results[i]]
    ELSE Append(results, [key |-> storeCode, value |-> result])

PricingError(storeCode, coverageType, error) ==
    [storeCode |-> storeCode, coverageType |-> coverageType, error |-> error]

\* the loop of calculateBulk from the store at index on
RECURSIVE calculateBulkFrom(_, _, _, _, _, _)
calculateBulkFrom(configs, storeList, index, coverageType, effectiveDate, acc) ==
    IF index > Len(storeList) THEN acc
    ELSE
      LET store == storeList[index]
          result == calculateIn(configs, store, coverageType, effectiveDate)
      IN calculateBulkFrom(configs, storeList, index + 1, coverageType,
            effectiveDate,
            IF result.threw
            THEN [acc EXCEPT !.errors = Append(@,
                    PricingError(store.storeCode, coverageType,
                                 "Nessuna configurazione di pricing attiva"))]
            ELSE [acc EXCEPT !.results =
                    setResult(@, store.storeCode, result)])

\* calculateBulk: [threw, results, errors]
calculateBulk(configs, storeList, coverageType, effectiveDate) ==
    calculateBulkFrom(configs, storeList, 1, coverageType, effectiveDate,
                      [threw |-> FALSE, results |-> <<>>, errors |-> <<>>])

\* ------------------------------------------------------------------------
\* Policy Service (the policies map, keyed by policyId = <<storeCode, ms>>)
\* ------------------------------------------------------------------------
PolicyIds(m) == {m[i].policyId : i \in 1..Len(m)}
GetPolicy(m, id) == m[CHOOSE i \in 1..Len(m) : m[i].policyId = id]
SetPolicy(m, p) ==
    IF p.policyId \in PolicyIds(m)
    THEN [i \in 1..Len(m) |-> IF m[i].policyId = p.policyId THEN p ELSE m[i]]
    ELSE Append(m, p)

NoPolicy == [policyId |-> <<>>]

\* the input of createPolicy; effectiveFrom NoDay and durationMonths 0 stand
\* for the omitted fields
CreatePolicyInput(store, coverageType, effectiveFrom, durationMonths) ==
    [store |-> store, coverageType |-> coverageType,
     effectiveFrom |-> effectiveFrom, durationMonths |-> durationMonths]

\* createPolicy once the pricing is calculated: [threw, policies, policy]
createPolicyWith(m, input, t, pricing) ==
    IF pricing.threw THEN [threw |-> TRUE, policies |-> m, policy |-> NoPolicy]
    ELSE
      LET store == input.store
          effectiveFrom == IF input.effectiveFrom = NoDay THEN Day(t)
                           ELSE input.effectiveFrom
          durationMonths == IF input.durationMonths = 0 THEN 12
                            ELSE input.durationMonths
          policy == [policyId |-> <<store.storeCode, t>>,
                     storeCode |-> store.storeCode,
                     coverageType |-> input.coverageType,
                     insuredSum |-> pricing.insuredSum,
                     premium |-> pricing.premium,
                     effectiveFrom |-> effectiveFrom,
                     effectiveTo |-> addMonths(effectiveFrom, durationMonths),
                     status |-> "active",
                     createdAt |-> t, updatedAt |-> t]
      IN [threw |-> FALSE, policies |-> SetPolicy(m, policy), policy |-> policy]

createPolicy(m, input, t) ==
    createPolicyWith(m, input, t,
                     calculate(input.store, input.coverageType, Day(t)))

getActivePolicy(m, storeCode) ==
    IF \E i \in 1..Len(m) : m[i].storeCode = storeCode /\ m[i].status = "active"
    THEN m[CHOOSE i \in 1..Len(m) :
              /\ m[i].storeCode = storeCode /\ m[i].status = "active"
              /\ \A j \in 1..(i - 1) :
                    ~(m[j].storeCode = storeCode /\ m[j].status = "active")]
    ELSE NoPolicy

\* cancelPolicy and updatePolicyPricing: [threw, policies]
cancelPolicyNoStatusCheck(m, policyId, t) ==
    IF policyId \notin PolicyIds(m) THEN [threw |-> TRUE, policies |-> m]
    ELSE [threw |-> FALSE,
          policies |-> SetPolicy(m, [GetPolicy(m, policyId) EXCEPT
                                        !.status = "cancelled", !.updatedAt = t])]

cancelPolicy(m, policyId, t) ==
    IF policyId \notin PolicyIds(m) THEN [threw |-> TRUE, policies |-> m]
    ELSE IF GetPolicy(m, policyId).status = "cancelled"
    THEN [threw |-> TRUE, policies |-> m]
    ELSE [threw |-> FALSE,
          policies |-> SetPolicy(m, [GetPolicy(m, policyId) EXCEPT
                                        !.status = "cancelled", !.updatedAt = t])]

\* an update that takes the new premium and keeps the insured sum
updatePolicyPricingWithOldSum(m, policy, t, pricing) ==
    IF pricing.threw THEN [threw |-> TRUE, policies |-> m]
    ELSE [threw |-> FALSE,
          policies |-> SetPolicy(m, [policy EXCEPT
                                        !.premium = pricing.premium,
                                        !.updatedAt = t])]

\* updatePolicyPricing once the pricing is calculated
updatePolicyPricingWith(m, policy, t, pricing) ==
    IF pricing.threw THEN [threw |-> TRUE, policies |-> m]
    ELSE [threw |-> FALSE,
          policies |-> SetPolicy(m, [policy EXCEPT
                                        !.insuredSum = pricing.insuredSum,
                                        !.premium = pricing.premium,
                                        !.updatedAt = t])]

updatePolicyPricing(m, policyId, store, t) ==
    IF policyId \notin PolicyIds(m) THEN [threw |-> TRUE, policies |-> m]
    ELSE updatePolicyPricingWith(m, GetPolicy(m, policyId), t,
             calculate(store, GetPolicy(m, policyId).coverageType, Day(t)))

\* logAudit of the Policy Service that has renewPolicy: one entry
logPolicyAudit(action, entityId, previousState, newState, t) ==
    <<[action |-> action, entityType |-> "policy", entityId |-> entityId,
       previousState |-> previousState, newState |-> newState,
       performedBy |-> "system", timestamp |-> t]>>

\* renewPolicy: [threw, policies, policy, log]; durationMonths 0 stands for
\* the omitted argument
renewPolicyKeepsOld(m, policyId, durationMonths, t) ==
    IF policyId \notin PolicyIds(m)
    THEN [threw |-> TRUE, policies |-> m, policy |-> NoPolicy, log |-> <<>>]
    ELSE
      LET oldPolicy == GetPolicy(m, policyId)
          months == IF durationMonths = 0 THEN 12 ELSE durationMonths
          effectiveFrom == oldPolicy.effectiveTo
          newPolicy == [policyId |-> <<oldPolicy.storeCode, t>>,
                        storeCode |-> oldPolicy.storeCode,
                        coverageType |-> oldPolicy.coverageType,
                        insuredSum |-> oldPolicy.insuredSum,
                        premium |-> oldPolicy.premium,
                        effectiveFrom |-> effectiveFrom,
                        effectiveTo |-> addMonths(effectiveFrom, months),
                        status |-> "active",
                        createdAt |-> t, updatedAt |-> t]
      IN [threw |-> FALSE,
          policies |-> SetPolicy(m, newPolicy),
          policy |-> newPolicy,
          log |-> logPolicyAudit("policy_renewed", newPolicy.policyId,
                                 oldPolicy, newPolicy, t)]

renewPolicy(m, policyId, durationMonths, t) ==
    IF policyId \notin PolicyIds(m)
    THEN [threw |-> TRUE, policies |-> m, policy |-> NoPolicy, log |-> <<>>]
    ELSE
      LET oldPolicy == GetPolicy(m, policyId)
          expiredPolicy == [oldPolicy EXCEPT !.status = "expired", !.updatedAt = t]
          months == IF durationMonths = 0 THEN 12 ELSE durationMonths
          effectiveFrom == oldPolicy.effectiveTo
          newPolicy == [policyId |-> <<oldPolicy.storeCode, t>>,
                        storeCode |-> oldPolicy.storeCode,
                        coverageType |-> oldPolicy.coverageType,
                        insuredSum |-> oldPolicy.insuredSum,
                        premium |-> oldPolicy.premium,
                        effectiveFrom |-> effectiveFrom,
                        effectiveTo |-> addMonths(effectiveFrom, months),
                        status |-> "active",
                        createdAt |-> t, updatedAt |-> t]
      IN [threw |-> FALSE,
          policies |-> SetPolicy(SetPolicy(m, expiredPolicy), newPolicy),
          policy |-> newPolicy,
          log |-> logPolicyAudit("policy_renewed", newPolicy.policyId,
                                 oldPolicy, newPolicy, t)]

\* ------------------------------------------------------------------------
\* Import Queue: applyImportChanges
\* ------------------------------------------------------------------------
\* loop over [...created, ...updated]: [stores, policies, threw]
RECURSIVE applyCreatedUpdated(_, _, _, _)
RECURSIVE applyCreatedUpdatedAlwaysCreate(_, _, _, _)

\* a Policy Service call that throws ends the loop; otherwise the loop goes
\* on with the policies the call left
applyRest(r, list, st1, pol, t) ==
    IF r.threw THEN [stores |-> st1, policies |-> pol, threw |-> TRUE]
    ELSE applyCreatedUpdated(Tail(list), st1, r.policies, t)

applyCreatedUpdatedAlwaysCreate(list, st, pol, t) ==
    IF list = <<>> THEN [stores |-> st, policies |-> pol, threw |-> FALSE]
    ELSE IF Head(list).status = "active"
    THEN applyCreatedUpdatedAlwaysCreate(Tail(list), SetStore(st, Head(list)),
             createPolicy(pol, CreatePolicyInput(Head(list), "catnat", NoDay, 0),
                          t).policies, t)
    ELSE applyCreatedUpdatedAlwaysCreate(Tail(list), SetStore(st, Head(list)), pol, t)

applyCreatedUpdated(list, st, pol, t) ==
    IF list = <<>> THEN [stores |-> st, policies |-> pol, threw |-> FALSE]
    ELSE IF Head(list).status = "active"
    THEN IF getActivePolicy(pol, Head(list).storeCode) = NoPolicy
         THEN applyRest(
                  createPolicy(pol, CreatePolicyInput(Head(list), "catnat", NoDay, 0), t),
                  list, SetStore(st, Head(list)), pol, t)
         ELSE applyRest(
                  updatePolicyPricing(pol,
                      getActivePolicy(pol, Head(list).storeCode).policyId,
                      Head(list), t),
                  list, SetStore(st, Head(list)), pol, t)
    ELSE applyCreatedUpdated(Tail(list), SetStore(st, Head(list)), pol, t)

\* loop over deactivated: [stores, policies, threw]
RECURSIVE applyDeactivatedKeepPolicy(_, _, _, _)
applyDeactivatedKeepPolicy(list, st, pol, t) ==
    IF list = <<>> THEN [stores |-> st, policies |-> pol, threw |-> FALSE]
    ELSE applyDeactivatedKeepPolicy(Tail(list), SetStore(st, Head(list)), pol, t)

RECURSIVE applyDeactivated(_, _, _, _)
applyDeactivated(list, st, pol, t) ==
    IF list = <<>> THEN [stores |-> st, policies |-> pol, threw |-> FALSE]
    ELSE
      LET store == Head(list)
          st1 == SetStore(st, store)
          policy == getActivePolicy(pol, store.storeCode)
      IN IF policy # NoPolicy
         THEN LET c == cancelPolicy(pol, policy.policyId, t)
              IN IF c.threw
                 THEN [stores |-> st1, policies |-> pol, threw |-> TRUE]
                 ELSE applyDeactivated(Tail(list), st1, c.policies, t)
         ELSE applyDeactivated(Tail(list), st1, pol, t)

\* applyImportChanges: [stores, policies, log, threw]
applyImportChanges(st, pol, rows, t) ==
    LET bulk == processBulkUpdate(st, rows, t)
        a == applyCreatedUpdated(bulk.created \o bulk.updated, st, pol, t)
        b == IF a.threw THEN a
             ELSE applyDeactivated(bulk.deactivated, a.stores, a.policies, t)
    IN [stores |-> b.stores, policies |-> b.policies, log |-> bulk.log,
        threw |-> b.threw]

\* ------------------------------------------------------------------------
\* State
\* ------------------------------------------------------------------------
VARIABLES
    jobs,              \* keys of ImportQueue.jobs (ids are issued in order)
    jobObj,            \* the job objects still referenced, by id
    queue,             \* ImportQueue.queue
    processing,        \* ImportQueue.processing
    stores,            \* ImportQueue.stores
    currentSessionId,  \* ImportQueue.currentSessionId
    policies,          \* PolicyService.policies
    auditLog,          \* LifecycleManager.auditLog
    pipe,              \* the suspended processNext invocation of each job id
    timers,            \* pending setTimeout(() => processNext(), 100)
    clearTimers,       \* job ids with a pending scheduleClearContent timer
    nextJobId,         \* next fresh job id
    now,               \* Date.now()
    held,              \* store handed from one direct lifecycle call to the next
    last,              \* the last direct Lifecycle Manager call and its result
    calls,             \* number of direct Lifecycle Manager calls made
    published,         \* the snapshots a subscriber was passed, by job id
    ret,               \* what the last enqueue / deleteJob call came to
    observing          \* whether the caller keeps what its calls come to

vars == <<jobs, jobObj, queue, processing, stores, currentSessionId, policies,
          auditLog, pipe, timers, clearTimers, nextJobId, now, held, last, calls,
          published, ret, observing>>

queueVars == <<jobs, jobObj, queue, processing, stores, currentSessionId,
               pipe, timers, clearTimers, nextJobId, published>>

lmVars == <<held, last, calls>>

obsVars == <<ret, observing>>

JobIds == 1..MaxJobs
NoSession == "null"
SessionIds == {"a", "b"}

NoResult == [status |-> "none"]
NoError == [message |-> ""]
NoJobObj == [status |-> "none"]
IdlePipe == [pc |-> "none"]
Suspended == {"awaitFile", "awaitApply"}
NoCall == [op |-> "none"]
NoRet == [op |-> "none", n |-> 0]

\* ------------------------------------------------------------------------
\* Files offered to enqueue
\* ------------------------------------------------------------------------
FileS1 == [headers |-> <<"codice", "mq">>, lines |-> << <<"S1", "100">> >>]
FileS1b == [headers |-> <<"codice", "mq">>, lines |-> << <<"S1", "200">> >>]
FileS2 == [headers |-> <<"codice", "mq">>, lines |-> << <<"S2", "100">> >>]
FileBad == [headers |-> <<"codice", "mq">>,
            lines |-> << <<"S1", "100">>, <<"S2", "-5">>, <<"S1", "200">> >>]
FileMap == [headers |-> <<"codice", "mq">>,
            lines |-> << <<"S1", "100">>, <<"S2", "-5">> >>]
Files == {FileS1, FileS1b, FileS2, FileBad, FileMap}

\* rosters handed to the Lifecycle Manager directly
FileS12 == [headers |-> <<"codice", "mq">>,
            lines |-> << <<"S1", "100">>, <<"S2", "100">> >>]
FileS1n == [headers |-> <<"codice", "mq", "nome">>,
            lines |-> << <<"S1", "100", "Alfa">> >>]

\* the state after construction, with the job ids the model may issue and
\* whether the caller keeps what its calls come to
Start(ids, obs) ==
    /\ jobs = {}
    /\ jobObj = [j \in ids |-> NoJobObj]
    /\ queue = <<>>
    /\ processing = FALSE
    /\ stores = <<>>
    /\ currentSessionId = NoSession
    /\ policies = <<>>
    /\ auditLog = <<>>
    /\ pipe = [j \in ids |-> IdlePipe]
    /\ timers = 0
    /\ clearTimers = {}
    /\ nextJobId = 1
    /\ now = 0
    /\ held = NoStore
    /\ last = NoCall
    /\ calls = 0
    /\ published = [j \in ids |-> <<>>]
    /\ ret = NoRet
    /\ observing = obs

Init == Start(JobIds, FALSE)

\* ------------------------------------------------------------------------
\* Import Queue: processNext
\* Q is the queue's state during a synchronous run:
\* [jobs, jobObj, queue, processing, pipe, timers, clearTimers, published]
\* ------------------------------------------------------------------------
QState == [jobs |-> jobs, jobObj |-> jobObj, queue |-> queue,
           processing |-> processing, pipe |-> pipe, timers |-> timers,
           clearTimers |-> clearTimers, published |-> published]

\* What nothing references any more is dropped: a job object that is in no
\* map and in no suspended pipeline (and the snapshots of that job, which no
\* pipeline can add to any more), an ended pipeline, and a content timer
\* whose job the map no longer holds (it finds no job and does nothing).
Collect(Q) ==
    [Q EXCEPT !.jobObj = [j \in DOMAIN Q.jobObj |->
                            IF j \in Q.jobs \/ Q.pipe[j].pc \in Suspended
                            THEN Q.jobObj[j] ELSE NoJobObj],
              !.pipe = [j \in DOMAIN Q.pipe |->
                            IF Q.pipe[j].pc \in Suspended THEN Q.pipe[j] ELSE IdlePipe],
              !.clearTimers = @ \cap Q.jobs,
              !.published = [j \in DOMAIN Q.published |->
                            IF j \in Q.jobs \/ Q.pipe[j].pc \in Suspended
                            THEN Q.published[j] ELSE <<>>]]

SetQState(Q) ==
    LET C == Collect(Q)
    IN /\ jobs' = C.jobs
       /\ jobObj' = C.jobObj
       /\ queue' = C.queue
       /\ processing' = C.processing
       /\ pipe' = C.pipe
       /\ timers' = C.timers
       /\ clearTimers' = C.clearTimers
       /\ published' = C.published

\* the earlier behaviour the header of the queue describes: the job is
\* exposed as it is held, content included
sanitizeJobKeepContent(job) == job

\* the job without its content field
sanitizeJob(job) == [f \in DOMAIN job \ {"content"} |-> job[f]]

\* notifySubscribers, for job id j: the subscriber is passed the snapshot
notifySubscribers(Q, j, snapshot) ==
    [Q EXCEPT !.published[j] = Append(@, snapshot)]

\* getJob and getAllJobs (newest first; jobs of one millisecond keep the
\* order in which the map holds them)
getJob(jobId) == IF jobId \in jobs THEN sanitizeJob(jobObj[jobId]) ELSE NoJobObj

RECURSIVE sortByCreatedAtDesc(_)
sortByCreatedAtDesc(js) ==
    IF js = {} THEN <<>>
    ELSE LET first == CHOOSE j \in js :
                         \A k \in js :
                            \/ jobObj[j].createdAt > jobObj[k].createdAt
                            \/ jobObj[j].createdAt = jobObj[k].createdAt /\ j <= k
         IN <<first>> \o sortByCreatedAtDesc(js \ {first})

getAllJobs ==
    LET ids == sortByCreatedAtDesc(jobs)
    IN [i \in 1..Len(ids) |-> sanitizeJob(jobObj[ids[i]])]

\* the end of processNext without the final notification
finishPipelineNoPublish(Q, j, job) ==
    [Q EXCEPT !.jobObj[j] = job,
              !.clearTimers = @ \cup {j},
              !.processing = FALSE,
              !.timers = IF Len(Q.queue) > 0 THEN @ + 1 ELSE @,
              !.pipe[j] = [pc |-> "done"]]

\* the statements after the try/catch of processNext, for job id j whose
\* object has become job
finishPipeline(Q, j, job) ==
    [Q EXCEPT !.jobObj[j] = job,
              !.published[j] = Append(@, sanitizeJob(job)),
              !.clearTimers = @ \cup {j},
              !.processing = FALSE,
              !.timers = IF Len(Q.queue) > 0 THEN @ + 1 ELSE @,
              !.pipe[j] = [pc |-> "done"]]

\* processNext up to its first await (or to its end)
processNext(Q, t) ==
    IF Q.processing \/ Len(Q.queue) = 0 THEN Q
    ELSE
      LET jobId == Head(Q.queue)
          Q1 == [Q EXCEPT !.processing = TRUE, !.queue = Tail(@)]
      IN IF jobId \notin Q.jobs
         THEN \* job is undefined: the try block and the catch block both throw
              [Q1 EXCEPT !.pipe[jobId] = [pc |-> "crashed"]]
         ELSE
           LET job == [Q.jobObj[jobId] EXCEPT !.status = "processing",
                                              !.startedAt = t,
                                              !.progress = 10]
           IN IF job.content = EmptyContent
              THEN finishPipeline(notifySubscribers(Q1, jobId, sanitizeJob(job)), jobId,
                       [job EXCEPT !.status = "failed",
                                   !.error = [message |-> "Contenuto del file non disponibile"],
                                   !.completedAt = t])
              ELSE [Q1 EXCEPT !.jobObj[jobId] = job,
                              !.published[jobId] = Append(@, sanitizeJob(job)),
                              !.pipe[jobId] = [pc |-> "awaitFile",
                                               result |-> processFile(job.content)]]

\* the end of the try block with the status taken for granted
finalJobAlwaysCompleted(job, result, t) ==
    [job EXCEPT !.result = result,
                !.status = "completed",
                !.progress = 100,
                !.completedAt = t]

\* the end of the try block of processNext
finalJob(job, result, t) ==
    [job EXCEPT !.result = result,
                !.status = IF result.validation.isValid THEN "completed" ELSE "failed",
                !.progress = 100,
                !.completedAt = t,
                !.error = IF ~result.validation.isValid
                          THEN [message |-> "Validazione fallita",
                                errors |-> Len(result.validation.errors)]
                          ELSE @]

pruneOldJobsAnyStatus(js, objs, t) ==
    {j \in js : ~(t - objs[j].createdAt > retentionMs)}

pruneOldJobs(js, objs, t) ==
    {j \in js : ~(/\ objs[j].status \in {"completed", "failed"}
                  /\ t - objs[j].createdAt > retentionMs)}

\* ------------------------------------------------------------------------
\* Actions of the Import Queue
\* ------------------------------------------------------------------------
\* what the caller keeps of a call, when it keeps anything
Returned(r) ==
    ret' = IF observing THEN [r EXCEPT !.n = 1 - ret.n] ELSE ret

\* enqueue without its authorization check
enqueueNoRoleCheck(content, userRole) ==
    /\ nextJobId \in DOMAIN jobObj
    /\ UNCHANGED <<stores, currentSessionId, policies, auditLog, now, lmVars,
                   observing>>
    /\ LET pruned == pruneOldJobs(jobs, jobObj, now)
       IN IF Cardinality(pruned) >= MAX_JOBS_PER_SESSION
          THEN /\ SetQState([QState EXCEPT !.jobs = pruned])
               /\ UNCHANGED nextJobId
               /\ Returned([op |-> "enqueue", n |-> 0, userRole |-> userRole,
                            outcome |-> "throws Limite massimo"])
          ELSE LET jobId == nextJobId
                   job == [status |-> "queued", progress |-> 0,
                           content |-> content, createdAt |-> now,
                           startedAt |-> NoDate, completedAt |-> NoDate,
                           result |-> NoResult, error |-> NoError]
                   Q == [QState EXCEPT !.jobs = pruned \cup {jobId},
                                       !.jobObj[jobId] = job,
                                       !.queue = Append(@, jobId),
                                       !.published[jobId] =
                                           Append(@, sanitizeJob(job))]
                   Q2 == processNext(Q, now)
               IN /\ SetQState(Q2)
                  /\ nextJobId' = nextJobId + 1
                  /\ Returned([op |-> "enqueue", n |-> 0, userRole |-> userRole,
                               outcome |-> "returns", jobId |-> jobId,
                               value |-> sanitizeJob(Q2.jobObj[jobId])])

enqueue(content, userRole) ==
    /\ nextJobId \in DOMAIN jobObj
    /\ UNCHANGED <<stores, currentSessionId, policies, auditLog, now, lmVars,
                   observing>>
    /\ IF userRole \notin AUTHORIZED_ROLES
       THEN /\ UNCHANGED <<jobs, jobObj, queue, processing, pipe, timers,
                           clearTimers, nextJobId, published>>
            /\ Returned([op |-> "enqueue", n |-> 0, userRole |-> userRole,
                         outcome |-> "throws Accesso negato"])
       ELSE LET pruned == pruneOldJobs(jobs, jobObj, now)
            IN IF Cardinality(pruned) >= MAX_JOBS_PER_SESSION
               THEN /\ SetQState([QState EXCEPT !.jobs = pruned])
                    /\ UNCHANGED nextJobId
                    /\ Returned([op |-> "enqueue", n |-> 0, userRole |-> userRole,
                                 outcome |-> "throws Limite massimo"])
               ELSE LET jobId == nextJobId
                        job == [status |-> "queued", progress |-> 0,
                                content |-> content, createdAt |-> now,
                                startedAt |-> NoDate, completedAt |-> NoDate,
                                result |-> NoResult, error |-> NoError]
                        Q == [QState EXCEPT !.jobs = pruned \cup {jobId},
                                            !.jobObj[jobId] = job,
                                            !.queue = Append(@, jobId),
                                            !.published[jobId] =
                                                Append(@, sanitizeJob(job))]
                        Q2 == processNext(Q, now)
                    IN /\ SetQState(Q2)
                       /\ nextJobId' = nextJobId + 1
                       /\ Returned([op |-> "enqueue", n |-> 0, userRole |-> userRole,
                                    outcome |-> "returns", jobId |-> jobId,
                                    value |-> sanitizeJob(Q2.jobObj[jobId])])

\* deleteJob without its test for a job in elaboration
deleteJobAnyStatus(jobId, userRole) ==
    LET R(outcome) == Returned([op |-> "deleteJob", n |-> 0, userRole |-> userRole,
                                jobId |-> jobId, outcome |-> outcome])
    IN
    /\ UNCHANGED <<nextJobId, stores, currentSessionId, policies, auditLog, now,
                   lmVars, observing>>
    /\ IF userRole \notin AUTHORIZED_ROLES
       THEN /\ UNCHANGED <<jobs, jobObj, queue, processing, pipe, timers,
                           clearTimers, published>>
            /\ R("throws Accesso negato")
       ELSE IF jobId \notin jobs
       THEN /\ UNCHANGED <<jobs, jobObj, queue, processing, pipe, timers,
                           clearTimers, published>>
            /\ R("returns false")
       ELSE /\ SetQState([QState EXCEPT !.jobs = @ \ {jobId}])
            /\ R("returns true")

deleteJob(jobId, userRole) ==
    LET R(outcome) == Returned([op |-> "deleteJob", n |-> 0, userRole |-> userRole,
                                jobId |-> jobId, outcome |-> outcome])
    IN
    /\ UNCHANGED <<nextJobId, stores, currentSessionId, policies, auditLog, now,
                   lmVars, observing>>
    /\ IF userRole \notin AUTHORIZED_ROLES
       THEN /\ UNCHANGED <<jobs, jobObj, queue, processing, pipe, timers,
                           clearTimers, published>>
            /\ R("throws Accesso negato")
       ELSE IF jobId \notin jobs
       THEN /\ UNCHANGED <<jobs, jobObj, queue, processing, pipe, timers,
                           clearTimers, published>>
            /\ R("returns false")
       ELSE IF jobObj[jobId].status = "processing"
       THEN /\ UNCHANGED <<jobs, jobObj, queue, processing, pipe, timers,
                           clearTimers, published>>
            /\ R("throws Impossibile eliminare")
       ELSE /\ SetQState([QState EXCEPT !.jobs = @ \ {jobId}])
            /\ R("returns true")

\* ImportQueue.clearSessionData, leaving the session id to the caller
clearSessionData ==
    /\ SetQState([QState EXCEPT !.jobs = {}, !.queue = <<>>, !.processing = FALSE])
    /\ stores' = <<>>

initSession(sessionId) ==
    /\ currentSessionId # sessionId
    /\ clearSessionData
    /\ currentSessionId' = sessionId
    /\ UNCHANGED <<nextJobId, policies, auditLog, now, lmVars, obsVars>>

\* authStore.logout: clears the queue, the Policy Service, the Lifecycle Manager
logout ==
    /\ clearSessionData
    /\ currentSessionId' = NoSession
    /\ policies' = <<>>
    /\ auditLog' = <<>>
    /\ UNCHANGED <<nextJobId, now, lmVars, obsVars>>

\* the 100 ms timer set at the end of processNext fires
timerFires ==
    /\ timers > 0
    /\ SetQState(processNext([QState EXCEPT !.timers = @ - 1], now))
    /\ UNCHANGED <<stores, currentSessionId, policies, auditLog, nextJobId, now,
                   lmVars, obsVars>>

\* a content timer that puts a failed job back in the wait queue
clearContentRequeues(jobId) ==
    /\ jobId \in clearTimers
    /\ SetQState([QState EXCEPT
                    !.clearTimers = @ \ {jobId},
                    !.jobObj = IF jobId \in jobs /\ jobObj[jobId].status = "failed"
                               THEN [@ EXCEPT ![jobId].status = "queued",
                                              ![jobId].error = NoError]
                               ELSE @,
                    !.queue = IF jobId \in jobs /\ jobObj[jobId].status = "failed"
                              THEN Append(@, jobId) ELSE @])
    /\ UNCHANGED <<nextJobId, stores, currentSessionId, policies, auditLog, now,
                   lmVars, obsVars>>

\* the timer set by scheduleClearContent fires
clearContent(jobId) ==
    /\ jobId \in clearTimers
    /\ SetQState([QState EXCEPT
                    !.clearTimers = @ \ {jobId},
                    !.jobObj = IF jobId \in jobs
                               THEN [@ EXCEPT ![jobId].content = EmptyContent]
                               ELSE @])
    /\ UNCHANGED <<nextJobId, stores, currentSessionId, policies, auditLog, now,
                   lmVars, obsVars>>

\* processNext resumes after `await fileProcessor.processFile(...)`
resumeAfterFile(j) ==
    /\ pipe[j].pc = "awaitFile"
    /\ LET result == pipe[j].result
           job == [jobObj[j] EXCEPT !.progress = 50]
       IN IF result.validation.isValid /\ Len(result.rows) > 0
          THEN LET a == applyImportChanges(stores, policies, result.rows, now)
               IN /\ stores' = a.stores
                  /\ policies' = a.policies
                  /\ auditLog' = auditLog \o a.log
                  /\ SetQState([QState EXCEPT
                                  !.jobObj[j] = job,
                                  !.published[j] = Append(@, sanitizeJob(job)),
                                  !.pipe[j] = [pc |-> "awaitApply",
                                               result |-> result,
                                               threw |-> a.threw]])
          ELSE /\ SetQState(finishPipeline(
                                notifySubscribers(QState, j, sanitizeJob(job)), j,
                                finalJob(job, result, now)))
               /\ UNCHANGED <<stores, policies, auditLog>>
    /\ UNCHANGED <<currentSessionId, nextJobId, now, lmVars, obsVars>>

\* processNext resumes after `await this.applyImportChanges(...)`
resumeAfterApply(j) ==
    /\ pipe[j].pc = "awaitApply"
    /\ LET result == pipe[j].result
       IN IF pipe[j].threw
          THEN SetQState(finishPipeline(QState, j,
                   [jobObj[j] EXCEPT !.status = "failed",
                                     !.error = [message |-> "errore"],
                                     !.completedAt = now]))
          ELSE LET job == [jobObj[j] EXCEPT !.progress = 90]
               IN SetQState(finishPipeline(
                                notifySubscribers(QState, j, sanitizeJob(job)), j,
                                finalJob(job, result, now)))
    /\ UNCHANGED <<stores, currentSessionId, policies, auditLog, nextJobId, now,
                   lmVars, obsVars>>

\* the clock advances by a millisecond
tickMs ==
    /\ now % retentionMs < MaxMs
    /\ now' = now + 1
    /\ UNCHANGED <<queueVars, policies, auditLog, lmVars, obsVars>>

\* the clock advances by the retention window
tickDay ==
    /\ now \div retentionMs < MaxDays
    /\ now' = now + retentionMs
    /\ UNCHANGED <<queueVars, policies, auditLog, lmVars, obsVars>>

\* The Import Queue with every call and every continuation interleaved, all
\* within one millisecond.
Next ==
    \/ \E content \in Files, userRole \in UserRole : enqueue(content, userRole)
    \/ \E jobId \in JobIds, userRole \in UserRole : deleteJob(jobId, userRole)
    \/ \E sessionId \in SessionIds : initSession(sessionId)
    \/ logout
    \/ timerFires
    \/ \E jobId \in JobIds : clearContent(jobId)
    \/ \E j \in JobIds : resumeAfterFile(j)
    \/ \E j \in JobIds : resumeAfterApply(j)

Spec == Init /\ [][Next]_vars

\* Imports by an administrator while the clock runs.
NextTimed ==
    \/ \E content \in Files : enqueue(content, "admin")
    \/ logout
    \/ timerFires
    \/ \E jobId \in JobIds : clearContent(jobId)
    \/ \E j \in JobIds : resumeAfterFile(j)
    \/ \E j \in JobIds : resumeAfterApply(j)
    \/ tickMs

SpecTimed == Init /\ [][NextTimed]_vars

\* ------------------------------------------------------------------------
\* Direct calls of the Lifecycle Manager.  A caller holds one store (held),
\* passes it to activate / deactivate / suspend and keeps the returned store;
\* it keeps a map of stores (stores) that it passes to processBulkUpdate and
\* writes the result back to, as applyImportChanges does.
\* ------------------------------------------------------------------------
ImportedData == {processFile(f).rows : f \in {FileS1, FileS1b, FileS2, FileS12, FileS1n}}
StoreData == {rows[1] : rows \in ImportedData}

Chain(op, success) == [op |-> op, success |-> success]

lmFrame == UNCHANGED <<jobs, jobObj, queue, processing, currentSessionId, policies,
                       pipe, timers, clearTimers, nextJobId, now, published,
                       obsVars>>

lmCreateStore(data) ==
    /\ calls < MaxCalls
    /\ LET r == createStore(data, now)
       IN /\ held' = r.store
          /\ auditLog' = auditLog \o r.log
          /\ last' = [op |-> "createStore", arg |-> NoStore, success |-> TRUE,
                      store |-> r.store, at |-> now, prev |-> Chain("none", FALSE),
                      event |-> NoEvent, error |-> "", log |-> r.log]
    /\ calls' = calls + 1
    /\ UNCHANGED stores
    /\ lmFrame

\* one of activate / deactivate / suspend on the held store
lmCall(op, r) ==
    /\ calls < MaxCalls
    /\ held # NoStore
    /\ held' = r.store
    /\ auditLog' = auditLog \o r.log
    /\ last' = [op |-> op, arg |-> held, success |-> r.success, store |-> r.store,
                at |-> now,
                prev |-> IF last.op \in {"none", "processBulkUpdate"}
                         THEN Chain("none", FALSE)
                         ELSE Chain(last.op, last.success),
                event |-> r.event, error |-> r.error, log |-> r.log]
    /\ calls' = calls + 1
    /\ UNCHANGED stores
    /\ lmFrame

lmActivate == lmCall("activate", activate(held, now))
lmDeactivate == lmCall("deactivate", deactivate(held, now))
lmSuspend == lmCall("suspend", suspend(held, now))

RECURSIVE SetStores(_, _)
SetStores(m, list) ==
    IF list = <<>> THEN m ELSE SetStores(SetStore(m, Head(list)), Tail(list))

lmProcessBulkUpdate(importedData) ==
    /\ calls < MaxCalls
    /\ LET r == processBulkUpdate(stores, importedData, now)
       IN /\ stores' = SetStores(stores, r.created \o r.updated \o r.deactivated)
          /\ auditLog' = auditLog \o r.log
          /\ last' = [op |-> "processBulkUpdate", existingStores |-> stores,
                      importedData |-> importedData,
                      created |-> r.created, updated |-> r.updated,
                      deactivated |-> r.deactivated, log |-> r.log]
    /\ calls' = calls + 1
    /\ UNCHANGED held
    /\ lmFrame

\* the caller files the held store in its map
lmPut ==
    /\ held # NoStore
    /\ stores' = SetStore(stores, held)
    /\ stores' # stores
    /\ UNCHANGED <<held, last, calls, auditLog>>
    /\ lmFrame

\* the caller picks a store of its map
lmTake(code) ==
    /\ HasStore(stores, code)
    /\ held' = GetStore(stores, code)
    /\ held' # held
    /\ last' = NoCall
    /\ UNCHANGED <<stores, calls, auditLog>>
    /\ lmFrame

NextLM ==
    \/ \E data \in StoreData : lmCreateStore(data)
    \/ lmActivate
    \/ lmDeactivate
    \/ lmSuspend
    \/ \E importedData \in ImportedData : lmProcessBulkUpdate(importedData)
    \/ lmPut
    \/ \E code \in {"S1", "S2"} : lmTake(code)
    \/ tickMs

SpecLM == Init /\ [][NextLM]_vars

\* The Import Queue without session switches.
NextNoSwitch ==
    \/ \E content \in Files, userRole \in UserRole : enqueue(content, userRole)
    \/ \E jobId \in JobIds, userRole \in UserRole : deleteJob(jobId, userRole)
    \/ timerFires
    \/ \E jobId \in JobIds : clearContent(jobId)
    \/ \E j \in JobIds : resumeAfterFile(j)
    \/ \E j \in JobIds : resumeAfterApply(j)

SpecNoSwitch == Init /\ [][NextNoSwitch]_vars

\* The Import Queue of one session with a caller that keeps what its calls
\* come to; one of the files is the empty string.
ApiFiles == {FileS1, FileBad, EmptyContent}

NextApi ==
    \/ \E content \in ApiFiles, userRole \in UserRole : enqueue(content, userRole)
    \/ \E jobId \in JobIds, userRole \in UserRole : deleteJob(jobId, userRole)
    \/ timerFires
    \/ \E jobId \in JobIds : clearContent(jobId)
    \/ \E j \in JobIds : resumeAfterFile(j)
    \/ \E j \in JobIds : resumeAfterApply(j)

SpecApi == Start(JobIds, TRUE) /\ [][NextApi]_vars

\* Imports over more than the retention window, by callers of every role
\* that keep what their calls come to.
NextRetention ==
    \/ \E content \in {FileS1, EmptyContent}, userRole \in UserRole :
          enqueue(content, userRole)
    \/ timerFires
    \/ \E jobId \in JobIds : clearContent(jobId)
    \/ \E j \in JobIds : resumeAfterFile(j)
    \/ \E j \in JobIds : resumeAfterApply(j)
    \/ tickMs
    \/ tickDay

SpecRetention == Start(JobIds, TRUE) /\ [][NextRetention]_vars

\* One session filling the queue to its limit: every job is enqueued with
\* the empty string, so that it ends at once and is held as a failed job.
CapIds == 1..MaxHeld

NextCap ==
    \/ \E userRole \in UserRole : enqueue(EmptyContent, userRole)
    \/ \E jobId \in JobIds, userRole \in UserRole : deleteJob(jobId, userRole)

SpecCap == Start(CapIds, TRUE) /\ [][NextCap]_vars

\* ------------------------------------------------------------------------
\* Direct calls of the Policy Service while the clock runs: createPolicy for
\* two stores with and without the optional fields, and cancelPolicy,
\* updatePolicyPricing and renewPolicy on the policies held and on an id
\* that was never given out.  last keeps each call with the policies before
\* it and what it came to.
\* ------------------------------------------------------------------------
PsStore(data) == activate(createStore(data, 0).store, 0).store
PsStores == {PsStore(processFile(f).rows[1]) : f \in {FileS1, FileS2}}
PsUpdatedStores == {PsStore(processFile(f).rows[1]) : f \in {FileS1b}}
EarlyDay == addMonths(ConfigFrom, 0 - 1)
LaterDay == addMonths(Day(0), 1)
PsInputs ==
    {CreatePolicyInput(store, "catnat", NoDay, 0) : store \in PsStores}
    \cup {CreatePolicyInput(store, "combined", effectiveFrom, 6) :
             store \in PsStores, effectiveFrom \in {EarlyDay, LaterDay}}
UnknownPolicyId == <<"S9", 0>>
PsPolicyIds == PolicyIds(policies) \cup {UnknownPolicyId}

psFrame == UNCHANGED <<queueVars, stores, now, held, obsVars>>

psCreatePolicy(input) ==
    /\ calls < MaxCalls
    /\ LET r == createPolicy(policies, input, now)
       IN /\ policies' = r.policies
          /\ last' = [op |-> "createPolicy", input |-> input, threw |-> r.threw,
                      policy |-> r.policy, before |-> policies, after |-> r.policies,
                      at |-> now, log |-> <<>>]
    /\ calls' = calls + 1
    /\ UNCHANGED auditLog
    /\ psFrame

psCancelPolicy(policyId) ==
    /\ calls < MaxCalls
    /\ LET r == cancelPolicy(policies, policyId, now)
       IN /\ policies' = r.policies
          /\ last' = [op |-> "cancelPolicy", policyId |-> policyId,
                      threw |-> r.threw, before |-> policies, after |-> r.policies,
                      at |-> now, log |-> <<>>]
    /\ calls' = calls + 1
    /\ UNCHANGED auditLog
    /\ psFrame

psUpdatePolicyPricing(policyId, store) ==
    /\ calls < MaxCalls
    /\ LET r == updatePolicyPricing(policies, policyId, store, now)
       IN /\ policies' = r.policies
          /\ last' = [op |-> "updatePolicyPricing", policyId |-> policyId,
                      store |-> store, threw |-> r.threw, before |-> policies,
                      after |-> r.policies, at |-> now, log |-> <<>>]
    /\ calls' = calls + 1
    /\ UNCHANGED auditLog
    /\ psFrame

psRenewPolicy(policyId, durationMonths) ==
    /\ calls < MaxCalls
    /\ LET r == renewPolicy(policies, policyId, durationMonths, now)
       IN /\ policies' = r.policies
          /\ auditLog' = auditLog \o r.log
          /\ last' = [op |-> "renewPolicy", policyId |-> policyId,
                      durationMonths |-> durationMonths, threw |-> r.threw,
                      policy |-> r.policy, before |-> policies,
                      after |-> r.policies, at |-> now, log |-> r.log]
    /\ calls' = calls + 1
    /\ psFrame

NextPS ==
    \/ \E input \in PsInputs : psCreatePolicy(input)
    \/ \E policyId \in PsPolicyIds : psCancelPolicy(policyId)
    \/ \E policyId \in PsPolicyIds, store \in PsUpdatedStores :
          psUpdatePolicyPricing(policyId, store)
    \/ \E policyId \in PsPolicyIds, durationMonths \in {0, 6} :
          psRenewPolicy(policyId, durationMonths)
    \/ tickMs

SpecPS == Init /\ [][NextPS]_vars

\* Imports by an administrator interleaved with direct createPolicy and
\* cancelPolicy calls, while the clock runs (the content timers stay pending).
NextCancel ==
    \/ \E content \in {FileS1, FileS2} : enqueue(content, "admin")
    \/ timerFires
    \/ \E j \in JobIds : resumeAfterFile(j)
    \/ \E j \in JobIds : resumeAfterApply(j)
    \/ \E store \in PsStores :
          psCreatePolicy(CreatePolicyInput(store, "catnat", NoDay, 0))
    \/ \E policyId \in PsPolicyIds : psCancelPolicy(policyId)
    \/ tickMs

SpecCancel == Init /\ [][NextCancel]_vars

\* ------------------------------------------------------------------------
\* A direct call of the File Processor: processFile on one of the files of
\* up to MaxLines data lines over a few headers and cells (and on the
\* three-line file FileBad), or mapRows on the rows parseCSV reads from such
\* a file; a line of no cell is a blank line.
\* ------------------------------------------------------------------------
HeaderRows ==
    {<<"codice", "mq">>, <<"mq", "codice">>, <<"codice">>, <<"nome", "mq">>,
     <<"nome">>}
Cells == {"", "S1", "S2", "100", "-5"}
DataLines ==
    {<<>>} \cup {l \in [1..1 -> Cells] : l[1] # ""} \cup [1..2 -> Cells]
FileInputs ==
    {[headers |-> h, lines |-> ls] :
        h \in HeaderRows,
        ls \in UNION {[1..n -> DataLines] : n \in 0..MaxLines}}
    \cup {EmptyContent, FileBad}

fpProcessFile(content) ==
    /\ last' = [op |-> "processFile", content |-> content,
                result |-> processFile(content)]
    /\ UNCHANGED <<queueVars, stores, policies, auditLog, now, held, calls, obsVars>>

\* mapRows on what parseCSV returned for the content (the header is read
\* from the keys of the first raw row)
fpMapRows(content) ==
    /\ ~parseCSV(content).threw
    /\ last' = [op |-> "mapRows", content |-> content,
                rawRows |-> parseCSV(content).rows,
                result |-> mapRows(content.headers, parseCSV(content).rows)]
    /\ UNCHANGED <<queueVars, stores, policies, auditLog, now, held, calls, obsVars>>

NextFile ==
    \/ last = NoCall /\ \E content \in FileInputs : fpProcessFile(content)
    \/ last = NoCall /\ \E content \in FileInputs : fpMapRows(content)

SpecFile == Init /\ [][NextFile]_vars

\* ------------------------------------------------------------------------
\* A direct call of a Pricing Engine: an engine built over one of the config
\* tables of up to MaxConfigs configs (or over the default table) is asked
\* once, by calculate for a store or by calculateBulk for a batch of up to
\* MaxBatch stores, with a coverage type and a date.
\* ------------------------------------------------------------------------
CoverageTypes == {"catnat", "property", "combined"}
PeWindows ==
    {[effectiveFrom |-> ConfigFrom, effectiveTo |-> NoDay],
     [effectiveFrom |-> ConfigFrom, effectiveTo |-> Day(0)],
     [effectiveFrom |-> LaterDay, effectiveTo |-> NoDay]}
PeTariffs ==
    {[ratePerSquareMeter |-> 250, minimumPremium |-> 50000,
      maximumInsuredSum |-> 1000000000],
     [ratePerSquareMeter |-> 400, minimumPremium |-> 75000,
      maximumInsuredSum |-> 15000000]}
PeConfigs ==
    {[coverageType |-> c, ratePerSquareMeter |-> p.ratePerSquareMeter,
      minimumPremium |-> p.minimumPremium,
      maximumInsuredSum |-> p.maximumInsuredSum,
      effectiveFrom |-> w.effectiveFrom, effectiveTo |-> w.effectiveTo] :
        c \in {"catnat", "property"}, p \in PeTariffs, w \in PeWindows}
PeTables ==
    UNION {[1..n -> PeConfigs] : n \in 0..MaxConfigs}
    \cup {DEFAULT_PRICING_CONFIGS}
PeDates == {EarlyDay, Day(0), Day(1), LaterDay}
PeStore(storeCode, squareMeters) ==
    PsStore([storeCode |-> storeCode, businessName |-> "", address |-> "",
             squareMeters |-> squareMeters])
\* floor areas of 5, 200.25, 300 and 20000 square metres
PeAreas == {Sqm(5), Sqm(200) + 25, Sqm(300), Sqm(20000)}
PeStores == {PeStore("S1", a) : a \in PeAreas}
PeBatchStores == {PeStore("S1", Sqm(5)), PeStore("S1", Sqm(300)),
                  PeStore("S2", Sqm(300))}
PeBatches == UNION {[1..n -> PeBatchStores] : n \in 0..MaxBatch}

peFrame ==
    UNCHANGED <<queueVars, stores, policies, auditLog, now, held, calls, obsVars>>

peCalculate(configs, store, coverageType, effectiveDate) ==
    /\ last' = [op |-> "calculate", configs |-> configs, store |-> store,
                coverageType |-> coverageType, effectiveDate |-> effectiveDate,
                result |-> calculateIn(configs, store, coverageType,
                                       effectiveDate)]
    /\ peFrame

peCalculateBulk(configs, storeList, coverageType, effectiveDate) ==
    /\ last' = [op |-> "calculateBulk", configs |-> configs,
                stores |-> storeList, coverageType |-> coverageType,
                effectiveDate |-> effectiveDate,
                result |-> calculateBulk(configs, storeList, coverageType,
                                         effectiveDate)]
    /\ peFrame

NextPricing ==
    \/ last = NoCall
       /\ \E configs \in PeTables, store \in PeStores,
             coverageType \in CoverageTypes, effectiveDate \in PeDates :
             peCalculate(configs, store, coverageType, effectiveDate)
    \/ last = NoCall
       /\ \E configs \in PeTables, storeList \in PeBatches,
             coverageType \in CoverageTypes, effectiveDate \in PeDates :
             peCalculateBulk(configs, storeList, coverageType, effectiveDate)

SpecPricing == Init /\ [][NextPricing]_vars

\* ------------------------------------------------------------------------
\* Properties
\* ------------------------------------------------------------------------
InFlight == {j \in JobIds : pipe[j].pc \in Suspended}
Terminal == {"completed", "failed"}
ActivePolicies(code) ==
    {i \in 1..Len(policies) :
        policies[i].storeCode = code /\ policies[i].status = "active"}

\* C1: at most one job is being processed at any time: no second pipeline is
\* started while another job's pipeline is still suspended at an await.
C1_SingleFlight ==
    Cardinality({j \in JobIds : jobObj[j].status = "processing"}) <= 1

\* C2: the worker never stalls.  Without a session switch only the end of
\* the pipeline that took the processing flag releases it, and only an idle
\* worker starts a queued job; so the flag is eventually released, and the
\* queued jobs eventually run, only if the flag is never held without a
\* suspended pipeline to release it.
C2_NeverStalls ==
    processing = TRUE => InFlight # {}

\* C3: jobs enter processing in the order enqueue accepted them: when a job
\* is marked processing, no job accepted before it is still queued or still
\* being processed.
C3_FifoStart ==
    [][\A j \in JobIds :
          (jobObj[j].status # "processing" /\ jobObj'[j].status = "processing")
          => \A i \in 1..(j - 1) : jobObj[i].status \notin {"queued", "processing"}]_vars

\* C4: session isolation: a pipeline whose job the job map no longer holds
\* (its session was switched while it was suspended) changes neither the
\* queue's store map nor the policies when it resumes.
C4_SessionIsolation ==
    [][\A j \in JobIds :
          (pipe[j].pc \in Suspended /\ j \notin jobs /\ pipe'[j] # pipe[j])
          => (stores' = stores /\ policies' = policies)]_vars

\* whether the File Processor finds a mapping error or a validation error
HasErrors(content) ==
    LET parsed == parseCSV(content)
        mapped == mapRows(content.headers, parsed.rows)
    IN \/ parsed.threw
       \/ Len(mapped.errors) > 0
       \/ Len(validate(mapped.rows).errors) > 0

\* C5: all-or-nothing: when the pipeline of a job whose file has a mapping
\* or validation error resumes, the job ends failed and the store map, the
\* policies and the audit log stay as they were.
C5_AllOrNothing ==
    [][\A j \in JobIds :
          (pipe[j].pc \in Suspended /\ HasErrors(jobObj[j].content)
             /\ pipe'[j] # pipe[j])
          => /\ stores' = stores
             /\ policies' = policies
             /\ auditLog' = auditLog
             /\ pipe'[j].pc = "none"
             /\ (j \in jobs => jobObj'[j].status = "failed")]_vars

\* C5 witness: a job with the spec's example file has ended failed
C5_Witness ==
    \E j \in jobs : /\ jobObj[j].status = "failed"
                    /\ jobObj[j].result # NoResult
                    /\ Len(jobObj[j].result.validation.errors) = 2
                    /\ jobObj[j].content = FileBad

C7_NoGhostNoGap ==
    (\A j \in JobIds : jobObj[j].status # "processing")
    => \A i \in 1..Len(stores) :
          /\ stores[i].status = "inactive" => ActivePolicies(stores[i].storeCode) = {}
          /\ stores[i].status = "active" => ActivePolicies(stores[i].storeCode) # {}

\* C7 witness: an import deactivated a store and cancelled its policy, and
\* created another store with its policy
C7_Witness ==
    /\ \A j \in JobIds : jobObj[j].status # "processing"
    /\ \E i \in 1..Len(stores), k \in 1..Len(policies) :
          /\ stores[i].status = "inactive"
          /\ policies[k].storeCode = stores[i].storeCode
          /\ policies[k].status = "cancelled"
    /\ \E i \in 1..Len(stores) : stores[i].status = "active"

\* C8: processBulkUpdate reactivates a deactivated store that the import
\* lists with changed data: the store returned in updated is active.
C8_BulkReactivates ==
    last.op = "processBulkUpdate"
    => \A i \in 1..Len(last.updated) :
          GetStore(last.existingStores, last.updated[i].storeCode).status = "inactive"
          => last.updated[i].status = "active"

DeactivateThenActivate ==
    /\ last.op = "activate"
    /\ last.prev = Chain("deactivate", TRUE)

AllowedChange ==
    {<<"pending", "active">>, <<"pending", "inactive">>,
     <<"active", "suspended">>, <<"active", "inactive">>,
     <<"suspended", "active">>, <<"suspended", "inactive">>,
     <<"inactive", "pending">>}

AlongTable(from, to) == from = to \/ <<from, to>> \in AllowedChange

\* C10: activate, deactivate, suspend and processBulkUpdate change a store's
\* status only along the transition table (a store new to the map is created
\* pending and goes to active).
C10_OnlyTableTransitions ==
    /\ last.op \in {"activate", "deactivate", "suspend"}
          => AlongTable(last.arg.status, last.store.status)
    /\ last.op = "processBulkUpdate"
          => /\ \A i \in 1..Len(last.created) :
                   AlongTable("pending", last.created[i].status)
             /\ \A i \in 1..Len(last.updated) :
                   AlongTable(GetStore(last.existingStores,
                                       last.updated[i].storeCode).status,
                              last.updated[i].status)
             /\ \A i \in 1..Len(last.deactivated) :
                   AlongTable(GetStore(last.existingStores,
                                       last.deactivated[i].storeCode).status,
                              last.deactivated[i].status)

\* C10 witness: a suspended store was activated again
C10_Witness ==
    /\ last.op = "activate"
    /\ last.arg.status = "suspended"
    /\ last.success
    /\ last.store.status = "active"

Codes(list) == {list[i].storeCode : i \in 1..Len(list)}
UniqueCodes(list) ==
    \A i, k \in 1..Len(list) : list[i].storeCode = list[k].storeCode => i = k
RowOf(importedData, code) ==
    importedData[CHOOSE i \in 1..Len(importedData) : importedData[i].storeCode = code]
Differs(store, data) ==
    \/ store.businessName # data.businessName
    \/ store.address # data.address
    \/ store.squareMeters # data.squareMeters

\* C11: for an import with unique store codes processBulkUpdate returns in
\* created exactly the imported codes with no existing store, each active;
\* in updated exactly the existing stores of the import whose business name,
\* address or floor area differs from the imported row, carrying the imported
\* values; in deactivated exactly the existing active stores absent from the
\* import, each inactive; and no store code is in two of the lists or twice
\* in one.
C11_BulkContract ==
    (last.op = "processBulkUpdate" /\ UniqueCodes(last.importedData))
    => LET ex == last.existingStores
           imp == last.importedData
       IN /\ Codes(last.created) = Codes(imp) \ StoreCodes(ex)
          /\ \A i \in 1..Len(last.created) : last.created[i].status = "active"
          /\ Codes(last.updated) =
                {c \in Codes(imp) \cap StoreCodes(ex) :
                    Differs(GetStore(ex, c), RowOf(imp, c))}
          /\ \A i \in 1..Len(last.updated) :
                ~Differs(last.updated[i], RowOf(imp, last.updated[i].storeCode))
          /\ Codes(last.deactivated) =
                {c \in StoreCodes(ex) \ Codes(imp) : GetStore(ex, c).status = "active"}
          /\ \A i \in 1..Len(last.deactivated) :
                last.deactivated[i].status = "inactive"
          /\ UniqueCodes(last.created \o last.updated \o last.deactivated)

\* C11 witness: the existing stores S1 and S2 are active, the import lists
\* S1 unchanged: S2 is deactivated, nothing is created or updated
C11_Witness ==
    /\ last.op = "processBulkUpdate"
    /\ StoreCodes(last.existingStores) = {"S1", "S2"}
    /\ \A c \in {"S1", "S2"} : GetStore(last.existingStores, c).status = "active"
    /\ Codes(last.importedData) = {"S1"}
    /\ Codes(last.deactivated) = {"S2"}
    /\ last.created = <<>>
    /\ last.updated = <<>>

\* every imported row equals its existing store, and every active store is
\* in the import
UnchangedRoster(st, rows) ==
    /\ \A i \in 1..Len(rows) :
          /\ HasStore(st, rows[i].storeCode)
          /\ ~Differs(GetStore(st, rows[i].storeCode), rows[i])
    /\ \A i \in 1..Len(st) :
          st[i].status = "active" => st[i].storeCode \in Codes(rows)

\* C12: reprocessing an unchanged roster is a no-op: when a job's pipeline
\* comes to apply a valid file whose rows all equal the existing stores and
\* list every active store, processBulkUpdate returns three empty lists and
\* no audit entry, and the step leaves the store map, the policies and the
\* audit log as they were.
C12_UnchangedRosterNoOp ==
    [][\A j \in JobIds :
          (/\ pipe[j].pc = "awaitFile"
           /\ pipe'[j] # pipe[j]
           /\ pipe[j].result.validation.isValid
           /\ Len(pipe[j].result.rows) > 0
           /\ UnchangedRoster(stores, pipe[j].result.rows))
          => /\ processBulkUpdate(stores, pipe[j].result.rows, now) = EmptyBulk
             /\ stores' = stores
             /\ policies' = policies
             /\ auditLog' = auditLog]_vars

\* C12 witness: the same valid file was imported twice, in different
\* milliseconds; the store and its policy are those of the first import
C12_Witness ==
    /\ jobs = {1, 2}
    /\ \A j \in jobs : /\ jobObj[j].status = "completed"
                         /\ jobObj[j].result.rows = processFile(FileS1).rows
    /\ jobObj[2].startedAt > jobObj[1].completedAt
    /\ Len(stores) = 1
    /\ stores[1].updatedAt = jobObj[1].startedAt
    /\ Len(auditLog) = 2
    /\ Len(policies) = 1
    /\ policies[1].updatedAt = policies[1].createdAt

StatusStep ==
    {<<"queued", "processing">>, <<"processing", "processing">>,
     <<"processing", "completed">>, <<"processing", "failed">>}

\* C13: a job's status only moves queued -> processing -> completed or
\* failed: after every step, the statuses a subscriber was shown for a job
\* start at queued and follow that order, and the last one shown is the
\* job's status; and a job that was completed or failed before the step has
\* the same status, result and error after it.
C13_StatusOnlyForward ==
    [][\A j \in JobIds :
          LET s == published'[j]
          IN /\ Len(s) > 0 => s[1].status = "queued"
             /\ \A i \in 1..(Len(s) - 1) :
                   <<s[i].status, s[i + 1].status>> \in StatusStep
             /\ jobObj'[j] # NoJobObj
                   => Len(s) > 0 /\ s[Len(s)].status = jobObj'[j].status
             /\ (jobObj[j].status \in Terminal /\ jobObj'[j] # NoJobObj)
                   => /\ jobObj'[j].status = jobObj[j].status
                      /\ jobObj'[j].result = jobObj[j].result
                      /\ jobObj'[j].error = jobObj[j].error]_vars

\* C13 witness: a failed job is still failed, with its result and error,
\* after its content was removed and another job was completed
C13_Witness ==
    /\ 1 \in jobs
    /\ jobObj[1].status = "failed"
    /\ jobObj[1].result # NoResult
    /\ jobObj[1].error # NoError
    /\ jobObj[1].content = EmptyContent
    /\ 2 \in jobs
    /\ jobObj[2].status = "completed"

Rank(snapshot) ==
    CASE snapshot.status = "queued" /\ snapshot.progress = 0      -> 0
      [] snapshot.status = "processing" /\ snapshot.progress = 10 -> 1
      [] snapshot.status = "processing" /\ snapshot.progress = 50 -> 2
      [] snapshot.status = "processing" /\ snapshot.progress = 90 -> 3
      [] snapshot.status \in Terminal                             -> 4
      [] OTHER                                                    -> -1

\* C14: the snapshots a subscriber is passed for one job come in pipeline
\* order: queued with progress 0 first, then processing with progress 10,
\* then 50, then 90, then one terminal snapshot; the progress never
\* decreases, and a job that has ended was shown in its terminal state.
C14_StreamInOrder ==
    \A j \in JobIds :
        LET s == published[j]
        IN /\ \A i \in 1..Len(s) : Rank(s[i]) >= 0
           /\ Len(s) > 0 => Rank(s[1]) = 0
           /\ Len(s) > 1 => Rank(s[2]) = 1
           /\ \A i, k \in 1..Len(s) :
                 i < k => Rank(s[i]) < Rank(s[k]) /\ s[i].progress <= s[k].progress
           /\ jobObj[j].status \in Terminal
                 => Len(s) > 0 /\ s[Len(s)] = sanitizeJob(jobObj[j])

\* C14 witness: a subscriber saw a job queued, at 10, 50 and 90, and completed
C14_Witness ==
    \E j \in jobs :
        /\ Len(published[j]) = 5
        /\ published[j][4].progress = 90
        /\ published[j][5].status = "completed"
        /\ published[j][5].progress = 100

\* C15: when a job's pipeline ends without an exception, the final state
\* that is published is the job with the result attached, progress 100 and
\* a completion time, completed if and only if the result's validation is
\* valid, and otherwise failed with an error that carries the number of
\* errors.
C15_FinalStatus ==
    [][\A j \in JobIds :
          (/\ pipe[j].pc \in Suspended
           /\ pipe'[j].pc = "none"
           /\ j \in jobs'
           /\ ~(pipe[j].pc = "awaitApply" /\ pipe[j].threw))
          => LET snapshot == published'[j][Len(published'[j])]
                 result == pipe[j].result
             IN /\ snapshot = sanitizeJob(jobObj'[j])
                /\ snapshot.result = result
                /\ snapshot.status =
                      IF result.validation.isValid THEN "completed" ELSE "failed"
                /\ snapshot.error =
                      IF result.validation.isValid THEN NoError
                      ELSE [message |-> "Validazione fallita",
                            errors |-> Len(result.validation.errors)]
                /\ snapshot.progress = 100
                /\ snapshot.completedAt = now]_vars

\* C15 witness: one job ended completed and one ended failed with the two
\* errors of its file
C15_Witness ==
    \E j, k \in jobs :
        /\ jobObj[j].status = "completed"
        /\ jobObj[j].result.validation.isValid
        /\ jobObj[k].status = "failed"
        /\ jobObj[k].error = [message |-> "Validazione fallita", errors |-> 2]
        /\ jobObj[k].progress = 100

\* the step runs processNext on job id j and an exception is raised in its
\* try block: the catch block has marked the job failed with no result, or
\* the id taken from the wait queue is of no job of the map
Raised(j) ==
    \/ /\ jobObj'[j].status = "failed"
       /\ jobObj[j].status # "failed"
       /\ jobObj'[j].result = NoResult
    \/ /\ ~processing
       /\ queue # <<>>
       /\ Head(queue) = j
       /\ queue' # queue
       /\ j \notin jobs

\* C16: when an exception is raised in a job's pipeline, the job ends failed
\* with the exception's message and a completion time, keeps the progress it
\* had reached, is published once in that state, and the worker is released
\* for the next queued job (a timer is set when a job waits).
C16_ExceptionEndsFailed ==
    [][\A j \in JobIds :
          Raised(j)
          => /\ processing' = FALSE
             /\ queue' # <<>> => timers' > 0
             /\ j \in jobs'
                   => LET s == published'[j]
                      IN /\ jobObj'[j].status = "failed"
                         /\ jobObj'[j].error # NoError
                         /\ jobObj'[j].completedAt = now
                         /\ jobObj'[j].progress \in {10, 50, 90}
                         /\ s[Len(s)] = sanitizeJob(jobObj'[j])
                         /\ \A i \in 1..(Len(s) - 1) : s[i].status # "failed"]_vars

\* a call was made in this step
Called(op) == ret'.n # ret.n /\ ret'.op = op

\* C17: enqueue with a role other than admin or broker throws and changes
\* nothing: job map, wait queue, store map, processing flag and published
\* snapshots are as before, and no job is pruned.
C17_UnauthorizedEnqueue ==
    [][(Called("enqueue") /\ ret'.userRole \notin {"admin", "broker"})
       => /\ ret'.outcome = "throws Accesso negato"
          /\ UNCHANGED <<jobs, jobObj, queue, processing, stores, published,
                         pipe, timers, clearTimers, policies, auditLog>>]_vars

\* C17 witness: a store manager's enqueue threw while the queue held a job
\* old enough to be pruned
C17_Witness ==
    /\ ret.op = "enqueue"
    /\ ret.userRole = "store_manager"
    /\ ret.outcome = "throws Accesso negato"
    /\ \E j \in jobs : /\ jobObj[j].status \in Terminal
                         /\ now - jobObj[j].createdAt > retentionMs

\* C18: deleteJob throws for a role other than admin or broker and for a job
\* in status processing, and returns false for an unknown id, leaving the job
\* map as it was; otherwise it removes exactly the named job and returns true.
C18_DeleteJob ==
    [][Called("deleteJob")
       => LET id == ret'.jobId
              same == jobs' = jobs /\ jobObj' = jobObj
          IN IF ret'.userRole \notin {"admin", "broker"}
             THEN ret'.outcome = "throws Accesso negato" /\ same
             ELSE IF id \notin jobs
             THEN ret'.outcome = "returns false" /\ same
             ELSE IF jobObj[id].status = "processing"
             THEN ret'.outcome = "throws Impossibile eliminare" /\ same
             ELSE /\ ret'.outcome = "returns true"
                  /\ jobs' = jobs \ {id}
                  /\ \A j \in jobs' : jobObj'[j] = jobObj[j]]_vars

\* C18 witness: deleteJob removed a completed job and left the job that was
\* being processed
C18_Witness ==
    /\ ret.op = "deleteJob"
    /\ ret.outcome = "returns true"
    /\ ret.jobId \notin jobs
    /\ \E j \in jobs : jobObj[j].status = "processing"

\* C19: no job returned by enqueue, getJob or getAllJobs and no snapshot
\* passed to a subscriber has a content field, whatever the job's state.
C19_NoContentExposed ==
    /\ \A j \in JobIds : \A i \in 1..Len(published[j]) :
          "content" \notin DOMAIN published[j][i]
    /\ \A j \in jobs : "content" \notin DOMAIN getJob(j)
    /\ \A i \in 1..Len(getAllJobs) : "content" \notin DOMAIN getAllJobs[i]
    /\ (ret.op = "enqueue" /\ ret.outcome = "returns")
          => "content" \notin DOMAIN ret.value

\* C19 witness: enqueue returned a queued job that holds its content, while
\* the map also holds a job being processed and nothing of them shows it
C19_Witness ==
    /\ ret.op = "enqueue"
    /\ ret.outcome = "returns"
    /\ ret.value.status = "queued"
    /\ ret.jobId \in jobs
    /\ jobObj[ret.jobId].content = FileS1
    /\ Len(getAllJobs) = 2
    /\ \E j \in jobs : jobObj[j].status = "processing" /\ Len(published[j]) = 3

\* C20: the queue never holds more than 100 jobs: after every step the job
\* map has at most 100 jobs, and an authorized enqueue that finds 100 jobs
\* held after pruning throws the capacity error, adds no job, leaves the wait
\* queue as it was and publishes nothing.
C20_AtMostHundred ==
    [][/\ Cardinality(jobs') <= 100
       /\ (/\ Called("enqueue")
           /\ ret'.userRole \in {"admin", "broker"}
           /\ Cardinality(pruneOldJobs(jobs, jobObj, now)) >= 100)
          => /\ ret'.outcome = "throws Limite massimo"
             /\ jobs' = pruneOldJobs(jobs, jobObj, now)
             /\ queue' = queue
             /\ nextJobId' = nextJobId
             /\ \A j \in jobs' : published'[j] = published[j]]_vars

\* C20 witness: an administrator's enqueue threw the capacity error with 100
\* jobs held
C20_Witness ==
    /\ ret.op = "enqueue"
    /\ ret.userRole = "admin"
    /\ ret.outcome = "throws Limite massimo"
    /\ Cardinality(jobs) = 100

\* C21: processFile reports isValid = true exactly when parsing threw
\* nothing and there are no mapping errors and no validation errors; its
\* error list is the mapping errors followed by the validation errors, or the
\* one row-0 "file" error of a parse exception; it returns rows only when
\* isValid is true.
C21_ValidIffNoErrors ==
    last.op = "processFile" =>
        LET parsed == parseCSV(last.content)
            mapped == mapRows(last.content.headers, parsed.rows)
            validation == validate(mapped.rows)
            result == last.result
        IN /\ result.validation.isValid
                <=> /\ ~parsed.threw
                    /\ Len(mapped.errors) = 0
                    /\ Len(validation.errors) = 0
           /\ ~parsed.threw
                => result.validation.errors = mapped.errors \o validation.errors
           /\ parsed.threw
                => /\ Len(result.validation.errors) = 1
                   /\ result.validation.errors[1].row = 0
                   /\ result.validation.errors[1].field = "file"
           /\ result.validation.isValid <=> Len(result.validation.errors) = 0
           /\ Len(result.rows) > 0 => result.validation.isValid
           /\ result.validation.isValid => result.rows = mapped.rows

\* C21 witness: a file of two well-formed rows with the same store code has
\* no mapping error and one validation error: isValid false, no rows
C21_Witness ==
    /\ last.op = "processFile"
    /\ ~parseCSV(last.content).threw
    /\ LET mapped == mapRows(last.content.headers, parseCSV(last.content).rows)
       IN /\ Len(mapped.errors) = 0
          /\ Len(mapped.rows) = 2
          /\ Len(validate(mapped.rows).errors) = 1
    /\ ~last.result.validation.isValid
    /\ last.result.rows = <<>>

DatesFollowStatus(store) ==
    /\ store.closureDate # NoDate <=> store.status = "inactive"
    /\ store.status \in {"active", "suspended"} => store.activationDate # NoDate

KeepsActivationDate(before, after) ==
    before.activationDate # NoDate => after.activationDate = before.activationDate

\* C23: for the stores createStore made and the Lifecycle Manager changed, an
\* activationDate once set is never changed or cleared by an operation,
\* closureDate is set exactly while the status is inactive, and an active or
\* suspended store has an activationDate.
C23_DatesFollowStatus ==
    /\ held # NoStore => DatesFollowStatus(held)
    /\ \A i \in 1..Len(stores) : DatesFollowStatus(stores[i])
    /\ last.op \in {"activate", "deactivate", "suspend"}
          => /\ KeepsActivationDate(last.arg, last.store)
             /\ DatesFollowStatus(last.store)
    /\ last.op = "createStore"
          => /\ last.store.activationDate = NoDate
             /\ last.store.closureDate = NoDate
    /\ last.op = "processBulkUpdate"
          => /\ \A i \in 1..Len(last.created) :
                   /\ DatesFollowStatus(last.created[i])
                   /\ last.created[i].activationDate # NoDate
             /\ \A i \in 1..Len(last.updated) :
                   /\ DatesFollowStatus(last.updated[i])
                   /\ KeepsActivationDate(
                          GetStore(last.existingStores, last.updated[i].storeCode),
                          last.updated[i])
             /\ \A i \in 1..Len(last.deactivated) :
                   /\ DatesFollowStatus(last.deactivated[i])
                   /\ KeepsActivationDate(
                          GetStore(last.existingStores,
                                   last.deactivated[i].storeCode),
                          last.deactivated[i])

\* C23 witness: a store activated earlier was deactivated at a later clock
\* reading: it keeps its activationDate and gets the closureDate
C23_Witness ==
    /\ last.op = "deactivate"
    /\ last.success
    /\ last.arg.activationDate # NoDate
    /\ last.at > last.arg.activationDate
    /\ last.store.activationDate = last.arg.activationDate
    /\ last.store.closureDate = last.at
    /\ held = last.store

TargetStatus(op) ==
    CASE op = "activate" -> "active"
      [] op = "deactivate" -> "inactive"
      [] op = "suspend" -> "suspended"

\* C24: an activate, deactivate or suspend call on a store that is already
\* in the target status, or whose status the transition table does not lead
\* from to the target, returns success = false with an error message and the
\* store it was given, no event, and appends no audit entry.
C24_RejectedChangesNothing ==
    (/\ last.op \in {"activate", "deactivate", "suspend"}
     /\ <<last.arg.status, TargetStatus(last.op)>> \notin AllowedChange)
    => /\ ~last.success
       /\ last.error # ""
       /\ last.store = last.arg
       /\ last.event = NoEvent
       /\ last.log = <<>>

\* C24 witness: suspend was called on a pending store and rejected
C24_Witness ==
    /\ last.op = "suspend"
    /\ last.arg.status = "pending"
    /\ ~last.success
    /\ held = last.arg

EntriesWith(log, previousState, newState) ==
    {k \in 1..Len(log) :
        /\ log[k].previousState = previousState
        /\ log[k].newState = newState
        /\ log[k].entityId = newState.storeCode
        /\ log[k].entityType = "store"}

\* C25: the audit log only grows within a session, and each successful
\* mutation appends exactly one entry holding the store before and after:
\* createStore (no store before), activate, deactivate, suspend, and in
\* processBulkUpdate one for each updated and deactivated store and, for a
\* created store, one for its creation and one for its activation; a
\* rejected call appends none.
C25_OneEntryPerMutation ==
    [][/\ Len(auditLog') >= Len(auditLog)
       /\ SubSeq(auditLog', 1, Len(auditLog)) = auditLog
       /\ calls' = calls + 1
            => LET new == SubSeq(auditLog', Len(auditLog) + 1, Len(auditLog'))
               IN /\ last'.op = "createStore"
                       => /\ Len(new) = 1
                          /\ EntriesWith(new, NoStore, last'.store) = {1}
                  /\ (last'.op \in {"activate", "deactivate", "suspend"}
                        /\ last'.success)
                       => /\ Len(new) = 1
                          /\ EntriesWith(new, last'.arg, last'.store) = {1}
                          /\ last'.store # last'.arg
                  /\ (last'.op \in {"activate", "deactivate", "suspend"}
                        /\ ~last'.success)
                       => new = <<>>
                  /\ last'.op = "processBulkUpdate"
                       => /\ Len(new) = 2 * Len(last'.created)
                                          + Len(last'.updated)
                                          + Len(last'.deactivated)
                          /\ \A i \in 1..Len(last'.updated) :
                                Cardinality(EntriesWith(new,
                                    GetStore(stores, last'.updated[i].storeCode),
                                    last'.updated[i])) = 1
                          /\ \A i \in 1..Len(last'.deactivated) :
                                Cardinality(EntriesWith(new,
                                    GetStore(stores, last'.deactivated[i].storeCode),
                                    last'.deactivated[i])) = 1
                          /\ \A i \in 1..Len(last'.created) :
                                \E k \in 1..Len(new) :
                                   /\ new[k].previousState = NoStore
                                   /\ new[k].newState.status = "pending"
                                   /\ EntriesWith(new, NoStore, new[k].newState) = {k}
                                   /\ Cardinality(EntriesWith(new, new[k].newState,
                                          last'.created[i])) = 1]_vars

\* C25 witness: one processBulkUpdate call created a store, updated another
\* and appended three audit entries to a log that had entries
C25_Witness ==
    /\ last.op = "processBulkUpdate"
    /\ Len(last.created) = 1
    /\ Len(last.updated) = 1
    /\ Len(last.log) = 3
    /\ Len(auditLog) > 3

ActiveIn(m, code) ==
    {i \in 1..Len(m) : m[i].storeCode = code /\ m[i].status = "active"}
PsCodes == {"S1", "S2"}
PsOps == {"createPolicy", "cancelPolicy", "updatePolicyPricing", "renewPolicy"}

\* C22 as stated: whatever createPolicy, renewPolicy, cancelPolicy and
\* updatePolicyPricing calls are made, no store ever has two active policies
\* in the Policy Service.
C22_ServiceKeepsOneActive ==
    \A code \in PsCodes :
        \A i, k \in 1..Len(policies) :
            (/\ policies[i].storeCode = code /\ policies[i].status = "active"
             /\ policies[k].storeCode = code /\ policies[k].status = "active")
            => i = k

\* the caller called createPolicy for a store that getActivePolicy had no
\* policy for, and renewPolicy on an active policy
CallerChecked ==
    /\ last.op = "createPolicy"
         => getActivePolicy(last.before, last.input.store.storeCode) = NoPolicy
    /\ (last.op = "renewPolicy" /\ last.policyId \in PolicyIds(last.before))
         => GetPolicy(last.before, last.policyId).status = "active"

\* C22 as amended: a Policy Service call leaves every store with at most one
\* active policy when it found at most one and the caller had checked:
\* createPolicy only for a store without an active policy, renewPolicy only
\* on an active policy.
C22_OneActiveWhileCallersCheck ==
    (last.op \in PsOps /\ CallerChecked)
    => \A code \in PsCodes :
          Cardinality(ActiveIn(last.before, code)) <= 1
          => Cardinality(ActiveIn(last.after, code)) <= 1

\* C22 witness: renewPolicy on a store's one active policy, a millisecond or
\* more after that policy was created, left the store with one active policy
\* and one expired policy
C22_Witness ==
    /\ last.op = "renewPolicy"
    /\ ~last.threw
    /\ GetPolicy(last.before, last.policyId).status = "active"
    /\ last.policy.policyId # last.policyId
    /\ Cardinality(ActiveIn(last.before, last.policy.storeCode)) = 1
    /\ Cardinality(ActiveIn(last.after, last.policy.storeCode)) = 1
    /\ GetPolicy(last.after, last.policyId).status = "expired"

\* C26: createPolicy prices the policy with the pricing config active at the
\* policy's effectiveFrom (the current date when effectiveFrom is omitted)
\* and throws, adding nothing, when no config is active at that date; the
\* policy it creates is active and ends durationMonths (12 by default) after
\* its effectiveFrom.
C26_PricedAsOfEffectiveFrom ==
    last.op = "createPolicy" =>
        LET input == last.input
            effectiveFrom == IF input.effectiveFrom = NoDay THEN Day(last.at)
                             ELSE input.effectiveFrom
            months == IF input.durationMonths = 0 THEN 12 ELSE input.durationMonths
            pricing == calculate(input.store, input.coverageType, effectiveFrom)
        IN IF pricing.threw
           THEN last.threw /\ last.after = last.before
           ELSE /\ ~last.threw
                /\ last.policy.premium = pricing.premium
                /\ last.policy.insuredSum = pricing.insuredSum
                /\ last.policy.status = "active"
                /\ last.policy.effectiveFrom = effectiveFrom
                /\ last.policy.effectiveTo = addMonths(effectiveFrom, months)
                /\ last.policy.policyId \in PolicyIds(last.after)
                /\ GetPolicy(last.after, last.policy.policyId) = last.policy

\* C27: cancelPolicy throws and leaves every policy as it was when the id
\* is unknown or the policy is already cancelled (so cancelling a cancelled
\* policy again fails); otherwise it changes that policy's status and update
\* time and nothing else.  An import never makes it throw: no pipeline comes
\* back from applyImportChanges with an exception.
C27_CancelOnceOnly ==
    /\ last.op = "cancelPolicy" =>
          IF \/ last.policyId \notin PolicyIds(last.before)
             \/ GetPolicy(last.before, last.policyId).status = "cancelled"
          THEN last.threw /\ last.after = last.before
          ELSE /\ ~last.threw
               /\ Len(last.after) = Len(last.before)
               /\ \A i \in 1..Len(last.before) :
                     last.after[i] =
                        IF last.before[i].policyId = last.policyId
                        THEN [last.before[i] EXCEPT !.status = "cancelled",
                                                    !.updatedAt = last.at]
                        ELSE last.before[i]
    /\ \A j \in JobIds : pipe[j].pc = "awaitApply" => ~pipe[j].threw

\* C27 witness: a cancelPolicy call on a policy that an import had cancelled
\* (its store left the roster) threw
C27_Witness ==
    /\ last.op = "cancelPolicy"
    /\ last.threw
    /\ last.policyId \in PolicyIds(last.before)
    /\ GetPolicy(last.before, last.policyId).status = "cancelled"
    /\ GetPolicy(last.before, last.policyId).updatedAt
          > GetPolicy(last.before, last.policyId).createdAt
    /\ \E i \in 1..Len(stores) :
          /\ stores[i].storeCode = last.policyId[1]
          /\ stores[i].status = "inactive"

\* C28: renewPolicy marks the given policy expired and adds a successor for
\* the same store and coverage type that is active, starts at the old
\* policy's effectiveTo and has its premium and insured sum; for an unknown
\* id it throws and changes nothing.
C28_RenewAddsSuccessor ==
    last.op = "renewPolicy" =>
        IF last.policyId \notin PolicyIds(last.before)
        THEN last.threw /\ last.after = last.before
        ELSE LET old == GetPolicy(last.before, last.policyId)
             IN /\ ~last.threw
                /\ PolicyIds(last.after)
                      = PolicyIds(last.before) \cup {last.policy.policyId}
                /\ GetPolicy(last.after, last.policyId).status = "expired"
                /\ last.policy.policyId # last.policyId
                /\ GetPolicy(last.after, last.policy.policyId) = last.policy
                /\ last.policy.status = "active"
                /\ last.policy.storeCode = old.storeCode
                /\ last.policy.coverageType = old.coverageType
                /\ last.policy.effectiveFrom = old.effectiveTo
                /\ last.policy.premium = old.premium
                /\ last.policy.insuredSum = old.insuredSum

\* C29: every createPolicy, cancelPolicy, updatePolicyPricing and renewPolicy
\* call that changes the policies appends exactly one audit entry, a policy
\* entry holding a state of the policies before the call (none for a
\* created policy) and a state after it.
C29_OneAuditEntryPerOperation ==
    (last.op \in PsOps /\ ~last.threw)
    => /\ Len(last.log) = 1
       /\ last.log[1].entityType = "policy"
       /\ last.log[1].entityId \in PolicyIds(last.after)
       /\ last.log[1].newState = GetPolicy(last.after, last.log[1].entityId)
       /\ last.op # "createPolicy"
            => \E i \in 1..Len(last.before) :
                  last.log[1].previousState = last.before[i]

Matching(configs, coverageType, date) ==
    {i \in 1..Len(configs) :
        /\ configs[i].coverageType = coverageType
        /\ ~Before(date, configs[i].effectiveFrom)
        /\ (configs[i].effectiveTo = NoDay \/ ~Before(configs[i].effectiveTo, date))}

\* C31: calculate fails whenever no config of the requested coverage type
\* has a window holding the date, and then returns nothing at all (no
\* premium, no default); when some config matches, the result is the one
\* computed from the first matching config in table order.
C31_NoConfigFailsFirstMatchApplies ==
    (last # NoCall /\ last.op = "calculate") =>
        LET matching == Matching(last.configs, last.coverageType,
                                 last.effectiveDate)
        IN IF matching = {}
           THEN /\ last.result.threw
                /\ DOMAIN last.result = {"threw"}
           ELSE LET first == CHOOSE i \in matching : \A j \in matching : i <= j
                    config == last.configs[first]
                IN /\ ~last.result.threw
                   /\ last.result.breakdown.rateApplied = config.ratePerSquareMeter
                   /\ last.result.premium >= config.minimumPremium
                   /\ last.result.insuredSum <= config.maximumInsuredSum
                   /\ last.result = calculateWith(last.store, config)

\* C31 witness: calculate was asked for a coverage type the table has
\* configs of, none with a window holding the date, and it failed.
C31_Witness ==
    /\ last # NoCall
    /\ last.op = "calculate"
    /\ \E i \in 1..Len(last.configs) :
          last.configs[i].coverageType = last.coverageType
    /\ Matching(last.configs, last.coverageType, last.effectiveDate) = {}
    /\ last.result.threw

\* the config a calculate call recorded in last found active
AppliedConfig ==
    LET matching == Matching(last.configs, last.coverageType, last.effectiveDate)
    IN last.configs[CHOOSE i \in matching : \A j \in matching : i <= j]

\* a calculate call on a store of positive floor area that returned a result
Priced ==
    /\ last # NoCall
    /\ last.op = "calculate"
    /\ ~last.result.threw
    /\ last.store.squareMeters > 0

\* the distance of two amounts
Dist(x, y) == IF x >= y THEN x - y ELSE y - x

\* C32 as stated: for a floor area a > 0 and the active config's rate r,
\* minimum m and cap c, calculate returns premium = max(a * r, m),
\* insuredSum = min(a * 1000, c) and adjustments = premium - a * r, with
\* premium >= m, insuredSum <= c and adjustments >= 0 (amounts compared in
\* hundredths of a cent, where a * r is exact).
C32_ExactFormula ==
    Priced =>
        LET a == last.store.squareMeters
            r == AppliedConfig.ratePerSquareMeter
            m == AppliedConfig.minimumPremium
            c == AppliedConfig.maximumInsuredSum
            res == last.result
        IN /\ res.premium * SqmScale = Max(a * r, m * SqmScale)
           /\ res.insuredSum = Min(a * ((1000 * 100) \div SqmScale), c)
           /\ res.breakdown.adjustments * SqmScale = res.premium * SqmScale - a * r
           /\ res.premium >= m
           /\ res.insuredSum <= c
           /\ res.breakdown.adjustments >= 0

\* C32 amended: premium is max(a * r, m) to the nearest cent, adjustments is
\* max(a * r, m) - a * r to the nearest cent, insuredSum is min(a * 1000, c);
\* premium >= m, insuredSum <= c and adjustments >= 0.
C32_FormulaToTheCent ==
    Priced =>
        LET a == last.store.squareMeters
            r == AppliedConfig.ratePerSquareMeter
            m == AppliedConfig.minimumPremium
            c == AppliedConfig.maximumInsuredSum
            res == last.result
            exact == Max(a * r, m * SqmScale)
        IN /\ 2 * Dist(res.premium * SqmScale, exact) <= SqmScale
           /\ res.insuredSum = Min(a * ((1000 * 100) \div SqmScale), c)
           /\ 2 * Dist(res.breakdown.adjustments * SqmScale, exact - a * r)
                 <= SqmScale
           /\ res.breakdown.squareMeters = a
           /\ res.breakdown.rateApplied = r
           /\ res.premium >= m
           /\ res.insuredSum <= c
           /\ res.breakdown.adjustments >= 0

\* C32 witness: a store of 200.25 square metres was priced at a rate that
\* brings a * r above the minimum and to half a cent, and the premium
\* returned is a whole number of cents.
C32_Witness ==
    /\ Priced
    /\ last.store.squareMeters * AppliedConfig.ratePerSquareMeter
          > AppliedConfig.minimumPremium * SqmScale
    /\ (last.store.squareMeters * AppliedConfig.ratePerSquareMeter) % SqmScale # 0
    /\ last.result.premium * SqmScale
          # last.store.squareMeters * AppliedConfig.ratePerSquareMeter

\* the positions of the batch of a calculateBulk call recorded in last whose
\* store calculate prices
PricedInBatch ==
    {i \in 1..Len(last.stores) :
        ~calculateIn(last.configs, last.stores[i], last.coverageType,
                     last.effectiveDate).threw}

\* C33: calculateBulk never throws and accounts for every store of the
\* batch: one result for each store calculate prices (that store's result,
\* under its code), one error (storeCode, coverageType, message) for each
\* store calculate fails on, so results.size + errors.length is the number
\* of stores given.
C33_OneOutcomePerStore ==
    (last # NoCall /\ last.op = "calculateBulk") =>
        LET res == last.result
            n == Len(last.stores)
        IN /\ ~res.threw
           /\ Len(res.results) = Cardinality(PricedInBatch)
           /\ Len(res.errors) = n - Cardinality(PricedInBatch)
           /\ Len(res.results) + Len(res.errors) = n
           /\ \A i \in PricedInBatch :
                 \E k \in 1..Len(res.results) :
                    /\ res.results[k].key = last.stores[i].storeCode
                    /\ res.results[k].value =
                          calculateIn(last.configs, last.stores[i],
                                      last.coverageType, last.effectiveDate)
           /\ \A i \in (1..n) \ PricedInBatch :
                 \E k \in 1..Len(res.errors) :
                    /\ res.errors[k].storeCode = last.stores[i].storeCode
                    /\ res.errors[k].coverageType = last.coverageType

\* the required fields no header of the file resolves to, store code first
MissingFields(headers) ==
    (IF \A i \in 1..Len(headers) : "storeCode" \notin headerMatches(headers[i])
     THEN <<"storeCode">> ELSE <<>>)
    \o (IF \A i \in 1..Len(headers) : "squareMeters" \notin headerMatches(headers[i])
        THEN <<"squareMeters">> ELSE <<>>)

\* C34: when no header resolves to the store code, or none to the floor
\* area, mapRows returns no row and nothing but row-0 errors, one for each
\* required field that is missing, however many data rows there are, and
\* processFile reports isValid = false with no rows.
C34_MissingColumnFailsFast ==
    (last # NoCall /\ MissingFields(last.content.headers) # <<>>) =>
        LET missing == MissingFields(last.content.headers)
        IN /\ last.op = "mapRows" =>
                /\ last.result.rows = <<>>
                /\ Len(last.result.errors) = Len(missing)
                /\ \A k \in 1..Len(missing) :
                      /\ last.result.errors[k].row = 0
                      /\ last.result.errors[k].field = missing[k]
           /\ last.op = "processFile" =>
                /\ ~last.result.validation.isValid
                /\ last.result.rows = <<>>
                /\ last.result.status = "failed"

\* C34 witness: mapRows was given two well-formed data rows under a header
\* without a floor-area column and returned no row and one row-0 error.
C34_Witness ==
    /\ last # NoCall
    /\ last.op = "mapRows"
    /\ MissingFields(last.content.headers) = <<"squareMeters">>
    /\ Len(last.rawRows) = 2
    /\ \A i \in 1..2 : last.rawRows[i][1] # ""
    /\ last.result.rows = <<>>
    /\ Len(last.result.errors) = 1

\* a cell that reads as a positive number
PositiveNumber(cell) == cell \in {"100", "200", "5"}

\* the raw rows of a mapRows call recorded in last that mapRows has to
\* accept: a store code and a positive floor area
AcceptedRaw ==
    LET codeCol == findCol(last.content.headers, "storeCode")
        sqmCol == findCol(last.content.headers, "squareMeters")
    IN {i \in 1..Len(last.rawRows) :
           /\ last.rawRows[i][codeCol] # ""
           /\ PositiveNumber(last.rawRows[i][sqmCol])}

\* C35: when both required columns resolve, mapRows accounts for every data
\* row exactly once: the rows with a store code and a positive floor area
\* are returned as typed rows, in order, and each other row has exactly one
\* error (store code when it is empty, floor area otherwise), so
\* rows.length + errors.length is the number of data rows.
C35_EveryRowAccountedOnce ==
    (last # NoCall /\ last.op = "mapRows"
        /\ MissingFields(last.content.headers) = <<>>) =>
        LET raw == last.rawRows
            n == Len(raw)
            codeCol == findCol(last.content.headers, "storeCode")
            sqmCol == findCol(last.content.headers, "squareMeters")
            rows == last.result.rows
            errors == last.result.errors
            errorsOf(i) == {k \in 1..Len(errors) : errors[k].row = i + 1}
            rank(i) == Cardinality({j \in AcceptedRaw : j <= i})
        IN /\ Len(rows) + Len(errors) = n
           /\ Len(rows) = Cardinality(AcceptedRaw)
           /\ \A k \in 1..Len(errors) : errors[k].row \in 2..(n + 1)
           /\ \A i \in AcceptedRaw :
                 /\ errorsOf(i) = {}
                 /\ rows[rank(i)].storeCode = raw[i][codeCol]
                 /\ rows[rank(i)].squareMeters = parseFloat(raw[i][sqmCol]).v
           /\ \A i \in (1..n) \ AcceptedRaw :
                 /\ Cardinality(errorsOf(i)) = 1
                 /\ \A k \in errorsOf(i) :
                       errors[k].field = IF raw[i][codeCol] = "" THEN "storeCode"
                                         ELSE "squareMeters"

\* C35 witness: under a header with both columns mapRows was given a row
\* without store code and a well-formed row, and returned one error and one
\* typed row.
C35_Witness ==
    /\ last # NoCall
    /\ last.op = "mapRows"
    /\ MissingFields(last.content.headers) = <<>>
    /\ Len(last.rawRows) = 2
    /\ AcceptedRaw = {2}
    /\ last.rawRows[1][findCol(last.content.headers, "storeCode")] = ""
    /\ Len(last.result.rows) = 1
    /\ Len(last.result.errors) = 1

\* the existing stores of a processBulkUpdate call that are absent from the
\* import while not active
AbsentNotActive(existingStores, importedData) ==
    {i \in 1..Len(existingStores) :
        /\ existingStores[i].storeCode \notin Codes(importedData)
        /\ existingStores[i].status \in {"pending", "suspended", "inactive"}}

\* C36: processBulkUpdate deactivates only stores that are active: every
\* store it returns as deactivated was an active existing store absent from
\* the import, and an existing pending, suspended or inactive store absent
\* from the import is left as it was, is in none of created, updated and
\* deactivated, and gets no audit entry.
C36_AbsentNonActiveUntouched ==
    [][(calls' # calls /\ last'.op = "processBulkUpdate")
       => /\ last'.existingStores = stores
          /\ \A k \in 1..Len(last'.deactivated) :
                LET code == last'.deactivated[k].storeCode
                IN /\ HasStore(stores, code)
                   /\ GetStore(stores, code).status = "active"
                   /\ code \notin Codes(last'.importedData)
          /\ \A i \in AbsentNotActive(stores, last'.importedData) :
                LET code == stores[i].storeCode
                IN /\ code \notin Codes(last'.created \o last'.updated
                                          \o last'.deactivated)
                   /\ \A k \in 1..Len(last'.log) : last'.log[k].entityId # code
                   /\ \A k \in (Len(auditLog) + 1)..Len(auditLog') :
                         auditLog'[k].entityId # code
                   /\ stores'[i] = stores[i]]_vars

\* C36 witness: processBulkUpdate found a pending store absent from an
\* import of another store, created the imported store and left the pending
\* one out of its lists and of the audit log.
C36_Witness ==
    /\ last.op = "processBulkUpdate"
    /\ Len(last.existingStores) = 1
    /\ last.existingStores[1].status = "pending"
    /\ last.existingStores[1].storeCode \notin Codes(last.importedData)
    /\ Len(last.created) = 1
    /\ last.deactivated = <<>>
    /\ \A k \in 1..Len(last.log) :
          last.log[k].entityId # last.existingStores[1].storeCode
    /\ last.existingStores[1] = stores[1]

\* every active policy of an active store of the store map carries the
\* premium and insured sum calculate yields for the store and the policy's
\* coverage type
PricedAsStore(st, pol, t) ==
    \A i \in 1..Len(st) : \A k \in 1..Len(pol) :
        (/\ st[i].status = "active"
         /\ pol[k].storeCode = st[i].storeCode
         /\ pol[k].status = "active")
        => LET pricing == calculate(st[i], pol[k].coverageType, Day(t))
           IN /\ ~pricing.threw
              /\ pol[k].premium = pricing.premium
              /\ pol[k].insuredSum = pricing.insuredSum

\* a policy that went through updatePolicyPricing: same id, still active,
\* another record
Repriced(before, after) ==
    /\ before.policyId = after.policyId
    /\ before.status = "active"
    /\ after.status = "active"
    /\ before # after

\* C37: when an import job completes, the active policy of each active
\* store of the store map carries the premium and insured sum calculate
\* yields for the store's floor area and the policy's coverage type; and a
\* policy the import repriced differs from what it was in insuredSum,
\* premium and updatedAt only.
C37_PolicyFollowsFloorArea ==
    [][/\ (\E j \in JobIds : /\ jobObj'[j].status = "completed"
                              /\ jobObj[j].status # "completed")
          => PricedAsStore(stores', policies', now')
       /\ \A i \in 1..Len(policies) : \A k \in 1..Len(policies') :
             Repriced(policies[i], policies'[k])
             => policies'[k] = [policies[i] EXCEPT
                                  !.insuredSum = policies'[k].insuredSum,
                                  !.premium = policies'[k].premium,
                                  !.updatedAt = policies'[k].updatedAt]]_vars

\* C37 witness: a completed import changed the floor area of an active
\* store from 100 to 200 square metres, and its active policy, made in an
\* earlier millisecond, carries the insured sum of the new floor area.
C37_Witness ==
    /\ \E j \in JobIds : jobObj[j].status = "completed"
    /\ \E i \in 1..Len(stores) : \E k \in 1..Len(policies) :
          /\ stores[i].status = "active"
          /\ stores[i].squareMeters = Sqm(200)
          /\ policies[k].storeCode = stores[i].storeCode
          /\ policies[k].status = "active"
          /\ policies[k].updatedAt > policies[k].createdAt
          /\ policies[k].insuredSum = 200 * 1000 * 100

\* the fields of a job of the job map agree with its status
FieldsFollowStatus(job) ==
    /\ job.status = "queued"
          => /\ job.progress = 0
             /\ job.startedAt = NoDate
    /\ job.status = "processing"
          => /\ job.progress \in {10, 50, 90}
             /\ job.startedAt # NoDate
             /\ job.completedAt = NoDate
    /\ job.status = "completed"
          => /\ job.progress = 100
             /\ job.result # NoResult
             /\ job.result.validation.isValid
             /\ job.error = NoError
    /\ job.status = "failed"
          => /\ job.error.message # ""
             /\ job.completedAt # NoDate

\* every id of the wait queue names a queued job of the job map
QueueNamesQueuedJobs ==
    \A k \in 1..Len(queue) :
        /\ queue[k] \in jobs
        /\ jobObj[queue[k]].status = "queued"

\* every queued job of the job map is in the wait queue exactly once
QueuedJobsWaitOnce ==
    \A j \in jobs :
        jobObj[j].status = "queued"
        => Cardinality({k \in 1..Len(queue) : queue[k] = j}) = 1

\* C38: in every reachable state each job's fields agree with its status
\* (queued: progress 0, not started; processing: progress 10, 50 or 90,
\* started, not completed; completed: progress 100, a valid result, no
\* error; failed: an error message and a completion time), every id in the
\* wait queue names a queued job of the job map, and every queued job is in
\* the wait queue exactly once.
C38_JobsAndQueueConsistent ==
    /\ \A j \in jobs : FieldsFollowStatus(jobObj[j])
    /\ QueueNamesQueuedJobs
    /\ QueuedJobsWaitOnce

\* the cell of a data line under the column, empty when the line is short
CellOf(line, col) == IF col <= Len(line) THEN line[col] ELSE ""

\* the error names the data line at file line e.row (the header is line 1,
\* the first data line is line 2) and that line has the fault the error
\* reports
PointsAtOwnLine(content, e) ==
    LET codeCol == findCol(content.headers, "storeCode")
        sqmCol == findCol(content.headers, "squareMeters")
        n == e.row - 1
    IN /\ n \in 1..Len(content.lines)
       /\ content.lines[n] # <<>>
       /\ LET line == content.lines[n]
          IN IF e.field = "squareMeters"
             THEN /\ CellOf(line, codeCol) # ""
                  /\ CellOf(line, sqmCol) = e.value
                  /\ ~PositiveNumber(CellOf(line, sqmCol))
             ELSE IF e.message = "duplicato"
             THEN /\ CellOf(line, codeCol) = e.value
                  /\ PositiveNumber(CellOf(line, sqmCol))
                  /\ \E m \in 1..(n - 1) :
                        /\ content.lines[m] # <<>>
                        /\ CellOf(content.lines[m], codeCol) = e.value
             ELSE CellOf(line, codeCol) = ""

\* C39: every row-level error of mapRows and of validate carries the
\* 1-based file line number of the data row it is about (header = line 1),
\* also after rejected rows and skipped blank lines: in the errors
\* processFile and mapRows return for a file, each error of a row above 0
\* points at the line that has the fault.
C39_ErrorsCarryFileLine ==
    (last # NoCall /\ last.op \in {"processFile", "mapRows"}) =>
        LET errors == IF last.op = "processFile"
                      THEN last.result.validation.errors
                      ELSE last.result.errors
        IN \A k \in 1..Len(errors) :
              errors[k].row > 0 => PointsAtOwnLine(last.content, errors[k])

====
